---------------------------- MODULE Spec2Model ----------------------------
(***************************************************************************)
(* Jupiter V6 instruction decoder (src/main.go).                          *)
(*                                                                         *)
(* The decoder is a sequential program: parseJupiterV6Instruction          *)
(* dispatches on the first 8 bytes, one of three parse functions reads     *)
(* the route-plan count, loops over parseRoutePlanStep and reads the       *)
(* trailing amounts.  The model follows one call of the decoder on one     *)
(* input buffer, one action per phase of the code.  SpecStep follows one   *)
(* call of parseRoutePlanStep on a buffer that holds a single step.        *)
(*                                                                         *)
(* The event side is a second sequential program, SpecEvents:              *)
(* extractJupiterEvents scans the inner instructions and then the log      *)
(* lines of one transaction result, one action per loop iteration, and     *)
(* generateSwapSummary aggregates the events it returns.  SpecStorage      *)
(* follows one call of parseJupiterSwapEvent and a later write of the      *)
(* caller to the buffer it handed in.                                      *)
(*                                                                         *)
(* SpecAnalysis is analyzeJupiterV6Transaction as a whole: its loop over   *)
(* the instructions of a message calls the decoder on each instruction of  *)
(* the target program, then the events are extracted and summarized.       *)
(* SpecJSON adds printJSONFormat on a decoded record, SpecExtended a       *)
(* second call of the decoder on the same buffer with bytes appended, and  *)
(* SpecTermination is the decoder under weak fairness of its phases.       *)
(*                                                                         *)
(* Values.  A Go byte slice is a record [arr, len]: arr is the backing     *)
(* array from the slice's first element to its capacity, len its length.   *)
(* An index expression data[i] faults when i >= len; a slice expression    *)
(* data[a:b] faults only when b > cap.  Unsigned integers wider than 16    *)
(* bits are numerals: little-endian sequences of base-256 digits without   *)
(* high zero digits (TLC's integers are 32 bits wide).  A float64 is a     *)
(* record [neg, m, e] standing for (-1)^neg * m * 2^e with m < 2^53,       *)
(* and every float64 operation rounds to nearest, ties to even.            *)
(***************************************************************************)
EXTENDS Integers, Sequences, FiniteSets, TLC

VARIABLES
    data,             \* the input buffer handed to parseJupiterV6Instruction
    pc,               \* position of the call: "call", "count", "loop", "tail", "done"
    fn,               \* the parse function the dispatch selected
    instructionType,  \* the instructionType argument of that function
    offset,           \* local offset
    id,               \* local id (parseSharedAccountsRoute)
    routePlanCount,   \* local routePlanCount (a numeral)
    routePlan,        \* the entries of routePlan assigned so far
    result,           \* the returned *JupiterSwapParams, or Nil
    err,              \* the returned error, "nil", or "panic" for a run-time fault
    tx,               \* the transaction handed to extractJupiterEvents, or Nil
    step,             \* position of the extraction: "idle", "call", "inner",
                      \* "logs", "returned", "summarized"
    innerAt,          \* <<group, instruction>> the inner-instruction loops are at
    logAt,            \* the log line the log loop is at
    events,           \* local events of extractJupiterEvents
    parsed,           \* the last call of parseJupiterSwapEvent: [data, event, err];
                      \* in SpecExtended the record of the first decoder call
    summary,          \* the SwapSummary of generateSwapSummary, or Nil
    analysis,         \* analyzeJupiterV6Transaction: [parsedTx, at, Instructions,
                      \* crashed], its argument, the instruction its loop is at,
                      \* analysis.Instructions, and whether a fault has ended it
    stdout            \* what printJSONFormat has printed, or Nil

\* the variables of the event extraction, the analysis and the output
evars == <<tx, step, innerAt, logAt, events, parsed, summary, analysis, stdout>>

\* the variables of the instruction decoder
dvars == <<data, pc, fn, instructionType, offset, id, routePlanCount,
           routePlan, result, err>>

vars == <<dvars, evars>>

Nil == [nil |-> TRUE]

-----------------------------------------------------------------------------
(* Go slices *)

GoLen(s) == s.len

GoCap(s) == Len(s.arr)

\* data[i] is in range
IndexOK(s, i) == i >= 0 /\ i < s.len

Index(s, i) == s.arr[i + 1]

\* data[a:b] is in range: the bound of a slice expression is the capacity
SliceOK(s, a, b) == 0 <= a /\ a <= b /\ b <= Len(s.arr)

Slice(s, a, b) == SubSeq(s.arr, a + 1, b)

\* bytesEqual with a loop that stops one element early
bytesEqualOffByOne(a, b) ==
    IF Len(a) # Len(b) THEN FALSE
    ELSE \A k \in 1..(Len(a) - 1) : a[k] = b[k]

\* bytesEqual on two byte sequences
bytesEqual(a, b) ==
    IF Len(a) # Len(b) THEN FALSE
    ELSE \A k \in 1..Len(a) : a[k] = b[k]

-----------------------------------------------------------------------------
(* Numerals: unsigned integers as little-endian base-256 digit sequences *)

RECURSIVE NNorm(_)
NNorm(d) ==
    IF Len(d) = 0 THEN d
    ELSE IF d[Len(d)] = 0 THEN NNorm(SubSeq(d, 1, Len(d) - 1))
    ELSE d

NDigit(a, k) == IF k + 1 <= Len(a) THEN a[k + 1] ELSE 0

RECURSIVE NFromInt(_)
NFromInt(n) == IF n = 0 THEN <<>> ELSE <<n % 256>> \o NFromInt(n \div 256)

NIsZero(a) == Len(NNorm(a)) = 0

Max(x, y) == IF x >= y THEN x ELSE y

Min(x, y) == IF x <= y THEN x ELSE y

\* -1, 0, 1 as a < b, a = b, a > b
RECURSIVE NCmpFrom(_, _, _)
NCmpFrom(a, b, k) ==
    IF k < 0 THEN 0
    ELSE IF NDigit(a, k) < NDigit(b, k) THEN -1
    ELSE IF NDigit(a, k) > NDigit(b, k) THEN 1
    ELSE NCmpFrom(a, b, k - 1)

NCmp(a, b) == NCmpFrom(a, b, Max(Len(a), Len(b)) - 1)

RECURSIVE NAddFrom(_, _, _, _)
NAddFrom(a, b, k, carry) ==
    IF k >= Len(a) /\ k >= Len(b)
    THEN (IF carry = 0 THEN <<>> ELSE <<carry>>)
    ELSE LET t == NDigit(a, k) + NDigit(b, k) + carry
         IN  <<t % 256>> \o NAddFrom(a, b, k + 1, t \div 256)

NAdd(a, b) == NNorm(NAddFrom(a, b, 0, 0))

\* a - b for a >= b
RECURSIVE NSubFrom(_, _, _, _)
NSubFrom(a, b, k, borrow) ==
    IF k >= Len(a) THEN <<>>
    ELSE LET t == NDigit(a, k) - NDigit(b, k) - borrow
         IN  IF t < 0 THEN <<t + 256>> \o NSubFrom(a, b, k + 1, 1)
             ELSE <<t>> \o NSubFrom(a, b, k + 1, 0)

NSub(a, b) == NNorm(NSubFrom(a, b, 0, 0))

\* a * m for a small integer m (m < 2^22)
RECURSIVE NMulSmallFrom(_, _, _, _)
NMulSmallFrom(a, m, k, carry) ==
    IF k >= Len(a) THEN NFromInt(carry)
    ELSE LET t == a[k + 1] * m + carry
         IN  <<t % 256>> \o NMulSmallFrom(a, m, k + 1, t \div 256)

NMulSmall(a, m) == NNorm(NMulSmallFrom(a, m, 0, 0))

Zeros(n) == [k \in 1..n |-> 0]

RECURSIVE NMulFrom(_, _, _)
NMulFrom(a, b, k) ==
    IF k >= Len(b) THEN <<>>
    ELSE NAdd(Zeros(k) \o NMulSmall(a, b[k + 1]), NMulFrom(a, b, k + 1))

NMul(a, b) == NNorm(NMulFrom(a, b, 0))

\* a divided by a small integer m (0 < m < 2^22): [q, r], digits from the top,
\* the upper half of the digits before the lower half
RECURSIVE NDivSmallFrom(_, _, _, _, _)
NDivSmallFrom(a, m, lo, hi, rem) ==
    IF lo > hi THEN [q |-> <<>>, r |-> rem]
    ELSE IF lo = hi
    THEN LET t == rem * 256 + a[lo]
         IN  [q |-> <<t \div m>>, r |-> t % m]
    ELSE LET mid == (lo + hi) \div 2
             Low(high) ==
                 CHOOSE d \in {[q |-> low.q \o high.q, r |-> low.r] :
                                 low \in {NDivSmallFrom(a, m, lo, mid, high.r)}} : TRUE
         IN  CHOOSE d \in {Low(high) :
                             high \in {NDivSmallFrom(a, m, mid + 1, hi, rem)}} : TRUE

NDivSmall(a, m) ==
    LET d == NDivSmallFrom(a, m, 1, Len(a), 0)
    IN  [q |-> NNorm(d.q), r |-> d.r]

RECURSIVE Pow2(_)
Pow2(n) == IF n = 0 THEN 1 ELSE 2 * Pow2(n - 1)

\* a * 2^n
NShl(a, n) == NNorm(Zeros(n \div 8) \o NMulSmall(a, Pow2(n % 8)))

\* floor(a / 2^n)
NShr(a, n) ==
    IF n \div 8 >= Len(a) THEN <<>>
    ELSE NDivSmall(SubSeq(a, n \div 8 + 1, Len(a)), Pow2(n % 8)).q

RECURSIVE IntBitLen(_)
IntBitLen(n) == IF n = 0 THEN 0 ELSE 1 + IntBitLen(n \div 2)

\* number of binary digits of a
NBitLen(a) ==
    LET c == NNorm(a)
    IN  IF Len(c) = 0 THEN 0 ELSE 8 * (Len(c) - 1) + IntBitLen(c[Len(c)])

NIsOdd(a) == NDigit(a, 0) % 2 = 1


-----------------------------------------------------------------------------
(* float64 arithmetic of the derived amounts *)

\* The float64 nearest to (-1)^neg * (m + t) * 2^e, where 0 < t < 1 when
\* sticky and t = 0 otherwise (sticky is only passed with m >= 2^54);
\* ties go to the even mantissa.
RoundF64(neg, m, e, sticky) ==
    LET L == NBitLen(m)
    IN  IF L <= 53 THEN [neg |-> neg /\ L > 0, m |-> NNorm(m), e |-> e]
        ELSE LET sh   == L - 53
                 q    == NShr(m, sh)
                 rem  == NSub(m, NShl(q, sh))
                 c    == NCmp(rem, NShl(<<1>>, sh - 1))
                 up   == c > 0 \/ (c = 0 /\ (sticky \/ NIsOdd(q)))
             IN  [neg |-> neg, m |-> IF up THEN NAdd(q, <<1>>) ELSE q, e |-> e + sh]

\* float64(x) for an unsigned integer x
F64FromUint(x) == RoundF64(FALSE, x, 0, FALSE)

\* x / k for a float64 x and a positive constant k that is an integer
F64Quo(x, k) ==
    IF NIsZero(x.m) THEN x
    ELSE LET t == 55 + IntBitLen(k)
             d == NDivSmall(NShl(x.m, t), k)
         IN  RoundF64(x.neg, d.q, x.e - t, d.r # 0)

F64Add(x, y) ==
    LET e == Min(x.e, y.e)
        X == NShl(x.m, x.e - e)
        Y == NShl(y.m, y.e - e)
    IN  IF x.neg = y.neg THEN RoundF64(x.neg, NAdd(X, Y), e, FALSE)
        ELSE IF NCmp(X, Y) >= 0 THEN RoundF64(x.neg, NSub(X, Y), e, FALSE)
        ELSE RoundF64(y.neg, NSub(Y, X), e, FALSE)

F64Sub(x, y) == F64Add(x, [neg |-> ~y.neg, m |-> y.m, e |-> y.e])

F64Mul(x, y) == RoundF64(x.neg # y.neg, NMul(x.m, y.m), x.e + y.e, FALSE)

\* the integer part of |x|
F64Trunc(x) == IF x.e >= 0 THEN NShl(x.m, x.e) ELSE NShr(x.m, -x.e)

TwoTo63 == <<0, 0, 0, 0, 0, 0, 0, 128>>

TwoTo64 == <<0, 0, 0, 0, 0, 0, 0, 0, 1>>

MaxUint64 == <<255, 255, 255, 255, 255, 255, 255, 255>>

\* uint64(x) is defined: the truncated value is representable
Uint64OfF64Defined(x) ==
    LET t == F64Trunc(x)
    IN  NIsZero(t) \/ (~x.neg /\ NCmp(t, TwoTo64) < 0)

\* uint64(x) for a float64 x: truncation toward zero.  When the value is
\* not representable the Go specification leaves the result to the
\* implementation: the outcomes are those of the conversion instructions
\* of the supported targets (saturation to 0 or 2^64-1, the indefinite
\* value 2^63, and the two's complement of the truncated magnitude).
Uint64OfF64(x) ==
    LET t == F64Trunc(x)
    IN  IF Uint64OfF64Defined(x) THEN {t}
        ELSE {<<>>, TwoTo63, MaxUint64}
             \cup (IF x.neg /\ NCmp(t, TwoTo64) < 0 THEN {NSub(TwoTo64, t)} ELSE {})

-----------------------------------------------------------------------------
(* encoding/binary.LittleEndian *)

Uint16(b) == b[1] + 256 * b[2]

\* Uint32 with the bytes in big-endian order
Uint32BigEndian(b) == NNorm(<<b[4], b[3], b[2], b[1]>>)

Uint32(b) == NNorm(<<b[1], b[2], b[3], b[4]>>)

Uint64(b) == NNorm(<<b[1], b[2], b[3], b[4], b[5], b[6], b[7], b[8]>>)

-----------------------------------------------------------------------------
(* The swap-variant table *)

SwapTypeToIndex ==
    { <<"Saber", 0>>,
      <<"SaberAddDecimalsDeposit", 1>>,
      <<"SaberAddDecimalsWithdraw", 2>>,
      <<"TokenSwap", 3>>,
      <<"Sencha", 4>>,
      <<"Step", 5>>,
      <<"Cropper", 6>>,
      <<"Raydium", 7>>,
      <<"Crema", 8>>,
      <<"Lifinity", 9>>,
      <<"Mercurial", 10>>,
      <<"Cykura", 11>>,
      <<"Serum", 12>>,
      <<"MarinadeDeposit", 13>>,
      <<"MarinadeUnstake", 14>>,
      <<"Aldrin", 15>>,
      <<"AldrinV2", 16>>,
      <<"Whirlpool", 17>>,
      <<"Invariant", 18>>,
      <<"Meteora", 19>>,
      <<"GooseFX", 20>>,
      <<"DeltaFi", 21>>,
      <<"Balansol", 22>>,
      <<"MarcoPolo", 23>>,
      <<"Dradex", 24>>,
      <<"LifinityV2", 25>>,
      <<"RaydiumClmm", 26>>,
      <<"Openbook", 27>>,
      <<"Phoenix", 28>>,
      <<"Symmetry", 29>>,
      <<"TokenSwapV2", 30>>,
      <<"HeliumTreasuryManagementRedeemV0", 31>>,
      <<"StakeDexStakeWrappedSol", 32>>,
      <<"StakeDexSwapViaStake", 33>>,
      <<"GooseFXV2", 34>>,
      <<"Perps", 35>>,
      <<"PerpsAddLiquidity", 36>>,
      <<"PerpsRemoveLiquidity", 37>>,
      <<"MeteoraDlmm", 38>>,
      <<"OpenBookV2", 39>>,
      <<"RaydiumClmmV2", 40>>,
      <<"StakeDexPrefundWithdrawStakeAndDepositStake", 41>>,
      <<"Clone", 42>>,
      <<"SanctumS", 43>>,
      <<"SanctumSAddLiquidity", 44>>,
      <<"SanctumSRemoveLiquidity", 45>>,
      <<"RaydiumCP", 46>>,
      <<"WhirlpoolSwapV2", 47>>,
      <<"OneIntro", 48>>,
      <<"PumpdotfunWrappedBuy", 49>>,
      <<"PumpdotfunWrappedSell", 50>>,
      <<"PerpsV2", 51>>,
      <<"PerpsV2AddLiquidity", 52>>,
      <<"PerpsV2RemoveLiquidity", 53>>,
      <<"MoonshotWrappedBuy", 54>>,
      <<"MoonshotWrappedSell", 55>>,
      <<"StabbleStableSwap", 56>>,
      <<"StabbleWeightedSwap", 57>>,
      <<"Obric", 58>>,
      <<"FoxBuyFromEstimatedCost", 59>>,
      <<"FoxClaimPartial", 60>>,
      <<"SolFi", 61>>,
      <<"Woofi", 76>>,
      <<"PumpdotfunAmmBuy", 108>>,
      <<"PumpdotfunAmmSell", 109>> }

ZeroSwap == [Type |-> "", Params |-> <<>>]

\* SwapNoParams that leaves the Type empty
SwapNoParamsUntyped(name) == [swap |-> [Type |-> "", Params |-> <<>>], err |-> "nil"]

\* return Swap{Type: name, Params: map[string]interface{}{}}, nil
SwapNoParams(name) == [swap |-> [Type |-> name, Params |-> <<>>], err |-> "nil"]

\* return Swap{}, fmt.Errorf("not enough data for ... swap")
SwapNotEnoughData == [swap |-> ZeroSwap, err |-> "TruncatedBuffer"]

\* SwapBoolParam with the flag compared to 1
SwapBoolParamStrict(name, key, d, off) ==
    IF off + 1 > GoLen(d) THEN SwapNotEnoughData
    ELSE [swap |-> [Type |-> name, Params |-> (key :> (Index(d, off) = 1))],
          err |-> "nil"]

\* SwapBoolParam asking for a byte after the flag
SwapBoolParamWide(name, key, d, off) ==
    IF off + 2 > GoLen(d) THEN SwapNotEnoughData
    ELSE [swap |-> [Type |-> name, Params |-> (key :> (Index(d, off) # 0))],
          err |-> "nil"]

\* the one-byte flag variants: key: data[offset] != 0
SwapBoolParam(name, key, d, off) ==
    IF off + 1 > GoLen(d) THEN SwapNotEnoughData
    ELSE [swap |-> [Type |-> name, Params |-> (key :> (Index(d, off) # 0))],
          err |-> "nil"]

\* the one-byte side variants: side := "Bid"; if data[offset] != 0 { side = "Ask" }
SwapSideParam(name, d, off) ==
    IF off + 1 > GoLen(d) THEN SwapNotEnoughData
    ELSE [swap |-> [Type |-> name,
                    Params |-> [side |-> IF Index(d, off) # 0 THEN "Ask" ELSE "Bid"]],
          err |-> "nil"]

decodeSwapType(swapTypeIndex, d, off) ==
    CASE
         swapTypeIndex = 0 -> SwapNoParams("Saber")
      [] swapTypeIndex = 1 -> SwapNoParams("SaberAddDecimalsDeposit")
      [] swapTypeIndex = 2 -> SwapNoParams("SaberAddDecimalsWithdraw")
      [] swapTypeIndex = 3 -> SwapNoParams("TokenSwap")
      [] swapTypeIndex = 4 -> SwapNoParams("Sencha")
      [] swapTypeIndex = 5 -> SwapNoParams("Step")
      [] swapTypeIndex = 6 -> SwapNoParams("Cropper")
      [] swapTypeIndex = 7 -> SwapNoParams("Raydium")
      [] swapTypeIndex = 8 -> SwapBoolParam("Crema", "a_to_b", d, off)
      [] swapTypeIndex = 9 -> SwapNoParams("Lifinity")
      [] swapTypeIndex = 10 -> SwapNoParams("Mercurial")
      [] swapTypeIndex = 11 -> SwapNoParams("Cykura")
      [] swapTypeIndex = 12 -> SwapSideParam("Serum", d, off)
      [] swapTypeIndex = 13 -> SwapNoParams("MarinadeDeposit")
      [] swapTypeIndex = 14 -> SwapNoParams("MarinadeUnstake")
      [] swapTypeIndex = 15 -> SwapSideParam("Aldrin", d, off)
      [] swapTypeIndex = 16 -> SwapSideParam("AldrinV2", d, off)
      [] swapTypeIndex = 17 -> SwapBoolParam("Whirlpool", "a_to_b", d, off)
      [] swapTypeIndex = 18 -> SwapBoolParam("Invariant", "x_to_y", d, off)
      [] swapTypeIndex = 19 -> SwapNoParams("Meteora")
      [] swapTypeIndex = 20 -> SwapNoParams("GooseFX")
      [] swapTypeIndex = 21 -> SwapBoolParam("DeltaFi", "stable", d, off)
      [] swapTypeIndex = 22 -> SwapNoParams("Balansol")
      [] swapTypeIndex = 23 -> SwapBoolParam("MarcoPolo", "x_to_y", d, off)
      [] swapTypeIndex = 24 -> SwapSideParam("Dradex", d, off)
      [] swapTypeIndex = 25 -> SwapNoParams("LifinityV2")
      [] swapTypeIndex = 26 -> SwapNoParams("RaydiumClmm")
      [] swapTypeIndex = 27 -> SwapSideParam("Openbook", d, off)
      [] swapTypeIndex = 28 -> SwapSideParam("Phoenix", d, off)
      [] swapTypeIndex = 29 ->
           IF off + 16 > GoLen(d) THEN SwapNotEnoughData
           ELSE [swap |-> [Type |-> "Symmetry", Params |->
                    [from_token_id |-> Uint64(Slice(d, off, off + 8)),
                     to_token_id   |-> Uint64(Slice(d, off + 8, off + 16))]],
                 err |-> "nil"]
      [] swapTypeIndex = 30 -> SwapNoParams("TokenSwapV2")
      [] swapTypeIndex = 31 -> SwapNoParams("HeliumTreasuryManagementRedeemV0")
      [] swapTypeIndex = 32 -> SwapNoParams("StakeDexStakeWrappedSol")
      [] swapTypeIndex = 33 ->
           IF off + 4 > GoLen(d) THEN SwapNotEnoughData
           ELSE [swap |-> [Type |-> "StakeDexSwapViaStake", Params |->
                    [bridge_stake_seed |-> Uint32(Slice(d, off, off + 4))]],
                 err |-> "nil"]
      [] swapTypeIndex = 34 -> SwapNoParams("GooseFXV2")
      [] swapTypeIndex = 35 -> SwapNoParams("Perps")
      [] swapTypeIndex = 36 -> SwapNoParams("PerpsAddLiquidity")
      [] swapTypeIndex = 37 -> SwapNoParams("PerpsRemoveLiquidity")
      [] swapTypeIndex = 38 -> SwapNoParams("MeteoraDlmm")
      [] swapTypeIndex = 39 -> SwapSideParam("OpenBookV2", d, off)
      [] swapTypeIndex = 40 -> SwapNoParams("RaydiumClmmV2")
      [] swapTypeIndex = 41 ->
           IF off + 4 > GoLen(d) THEN SwapNotEnoughData
           ELSE [swap |-> [Type |-> "StakeDexPrefundWithdrawStakeAndDepositStake", Params |->
                    [bridge_stake_seed |-> Uint32(Slice(d, off, off + 4))]],
                 err |-> "nil"]
      [] swapTypeIndex = 42 ->
           IF off + 3 > GoLen(d) THEN SwapNotEnoughData
           ELSE [swap |-> [Type |-> "Clone", Params |->
                    [pool_index             |-> Index(d, off),
                     quantity_is_input      |-> Index(d, off + 1) # 0,
                     quantity_is_collateral |-> Index(d, off + 2) # 0]],
                 err |-> "nil"]
      [] swapTypeIndex = 43 ->
           IF off + 10 > GoLen(d) THEN SwapNotEnoughData
           ELSE [swap |-> [Type |-> "SanctumS", Params |->
                    [src_lst_value_calc_accs |-> Index(d, off),
                     dst_lst_value_calc_accs |-> Index(d, off + 1),
                     src_lst_index |-> Uint32(Slice(d, off + 2, off + 6)),
                     dst_lst_index |-> Uint32(Slice(d, off + 6, off + 10))]],
                 err |-> "nil"]
      [] swapTypeIndex = 44 ->
           IF off + 5 > GoLen(d) THEN SwapNotEnoughData
           ELSE [swap |-> [Type |-> "SanctumSAddLiquidity", Params |->
                    [lst_value_calc_accs |-> Index(d, off),
                     lst_index |-> Uint32(Slice(d, off + 1, off + 5))]],
                 err |-> "nil"]
      [] swapTypeIndex = 45 ->
           IF off + 5 > GoLen(d) THEN SwapNotEnoughData
           ELSE [swap |-> [Type |-> "SanctumSRemoveLiquidity", Params |->
                    [lst_value_calc_accs |-> Index(d, off),
                     lst_index |-> Uint32(Slice(d, off + 1, off + 5))]],
                 err |-> "nil"]
      [] swapTypeIndex = 46 -> SwapNoParams("RaydiumCP")
      [] swapTypeIndex = 47 -> SwapBoolParam("WhirlpoolSwapV2", "a_to_b", d, off)
      [] swapTypeIndex = 48 -> SwapNoParams("OneIntro")
      [] swapTypeIndex = 49 -> SwapNoParams("PumpdotfunWrappedBuy")
      [] swapTypeIndex = 50 -> SwapNoParams("PumpdotfunWrappedSell")
      [] swapTypeIndex = 51 -> SwapNoParams("PerpsV2")
      [] swapTypeIndex = 52 -> SwapNoParams("PerpsV2AddLiquidity")
      [] swapTypeIndex = 53 -> SwapNoParams("PerpsV2RemoveLiquidity")
      [] swapTypeIndex = 54 -> SwapNoParams("MoonshotWrappedBuy")
      [] swapTypeIndex = 55 -> SwapNoParams("MoonshotWrappedSell")
      [] swapTypeIndex = 56 -> SwapNoParams("StabbleStableSwap")
      [] swapTypeIndex = 57 -> SwapNoParams("StabbleWeightedSwap")
      [] swapTypeIndex = 58 -> SwapBoolParam("Obric", "x_to_y", d, off)
      [] swapTypeIndex = 59 -> SwapNoParams("FoxBuyFromEstimatedCost")
      [] swapTypeIndex = 60 -> SwapBoolParam("FoxClaimPartial", "is_y", d, off)
      [] swapTypeIndex = 61 -> SwapBoolParam("SolFi", "is_quote_to_base", d, off)
      [] swapTypeIndex = 76 -> SwapNoParams("Woofi")
      [] swapTypeIndex = 108 -> SwapNoParams("PumpdotfunAmmBuy")
      [] swapTypeIndex = 109 -> SwapNoParams("PumpdotfunAmmSell")
      [] OTHER -> SwapNoParams("Unknown_" \o ToString(swapTypeIndex))

\* updateOffsetForSwapType with the width of tag 42 taken as 4
updateOffsetForSwapTypeWide42(swapTypeIndex, off) ==
    CASE swapTypeIndex \in {8, 12, 15, 16, 17, 18, 21, 23, 24, 27, 28, 39, 47, 58, 60, 61} ->
           off + 1
      [] swapTypeIndex = 29 -> off + 16
      [] swapTypeIndex \in {33, 41, 42} -> off + 4
      [] swapTypeIndex = 43 -> off + 10
      [] swapTypeIndex \in {44, 45} -> off + 5
      [] OTHER -> off

updateOffsetForSwapType(swapTypeIndex, off) ==
    CASE swapTypeIndex \in {8, 12, 15, 16, 17, 18, 21, 23, 24, 27, 28, 39, 47, 58, 60, 61} ->
           off + 1
      [] swapTypeIndex = 29 -> off + 16
      [] swapTypeIndex \in {33, 41} -> off + 4
      [] swapTypeIndex = 42 -> off + 3
      [] swapTypeIndex = 43 -> off + 10
      [] swapTypeIndex \in {44, 45} -> off + 5
      [] OTHER -> off

ZeroStep == [Swap |-> ZeroSwap, Percent |-> 0, InputIndex |-> 0, OutputIndex |-> 0]

\* parseRoutePlanStep with the input and output index read in the other order
parseRoutePlanStepSwapped(d, off) ==
    IF off + 4 > GoLen(d)
    THEN [step |-> ZeroStep, offset |-> off, err |-> "TruncatedBuffer"]
    ELSE LET swapTypeIndex == Index(d, off)
             o1  == off + 1
             dec == decodeSwapType(swapTypeIndex, d, o1)
             o2  == updateOffsetForSwapType(swapTypeIndex, o1)
         IN  IF dec.err # "nil"
             THEN [step |-> ZeroStep, offset |-> o1, err |-> dec.err]
             ELSE IF ~IndexOK(d, o2) \/ ~IndexOK(d, o2 + 1) \/ ~IndexOK(d, o2 + 2)
             THEN [step |-> ZeroStep, offset |-> o2, err |-> "panic"]
             ELSE [step |-> [Swap        |-> dec.swap,
                             Percent     |-> Index(d, o2),
                             InputIndex  |-> Index(d, o2 + 2),
                             OutputIndex |-> Index(d, o2 + 1)],
                   offset |-> o2 + 3,
                   err |-> "nil"]

\* parseRoutePlanStep(data, offset): [step, offset, err].  The three reads
\* after the variant parameters are index expressions without a length
\* check of their own: out of range they fault.
parseRoutePlanStep(d, off) ==
    IF off + 4 > GoLen(d)
    THEN [step |-> ZeroStep, offset |-> off, err |-> "TruncatedBuffer"]
    ELSE LET swapTypeIndex == Index(d, off)
             o1  == off + 1
             dec == decodeSwapType(swapTypeIndex, d, o1)
             o2  == updateOffsetForSwapType(swapTypeIndex, o1)
         IN  IF dec.err # "nil"
             THEN [step |-> ZeroStep, offset |-> o1, err |-> dec.err]
             ELSE IF ~IndexOK(d, o2) \/ ~IndexOK(d, o2 + 1) \/ ~IndexOK(d, o2 + 2)
             THEN [step |-> ZeroStep, offset |-> o2, err |-> "panic"]
             ELSE [step |-> [Swap        |-> dec.swap,
                             Percent     |-> Index(d, o2),
                             InputIndex  |-> Index(d, o2 + 1),
                             OutputIndex |-> Index(d, o2 + 2)],
                   offset |-> o2 + 3,
                   err |-> "nil"]


-----------------------------------------------------------------------------
(* Discriminators and the decoded record *)

Kinds == {"route", "routeWithTokenLedger", "sharedAccountsRoute",
          "sharedAccountsRouteWithTokenLedger", "exactOutRoute",
          "sharedAccountsExactOutRoute"}

InstructionDiscriminators ==
    [route                              |-> <<229, 23, 203, 151, 122, 227, 173, 42>>,
     routeWithTokenLedger               |-> <<150, 86, 71, 116, 167, 93, 14, 104>>,
     sharedAccountsRoute                |-> <<193, 32, 155, 51, 65, 214, 156, 129>>,
     sharedAccountsRouteWithTokenLedger |-> <<230, 121, 143, 80, 119, 159, 106, 170>>,
     exactOutRoute                      |-> <<208, 51, 239, 151, 123, 43, 237, 92>>,
     sharedAccountsExactOutRoute        |-> <<176, 209, 105, 168, 154, 125, 69, 62>>]

SwapEventDiscriminator == <<228, 69, 165, 46, 81, 203, 154, 29>>

\* JupiterSwapParams; a field the constructor leaves out holds its zero value
JupiterSwapParams(type, i, plan, inAmt, outAmt, quotedOut, quotedIn, slip, fee, minOut) ==
    [InstructionType |-> type, ID |-> i, RoutePlan |-> plan,
     InAmount |-> inAmt, OutAmount |-> outAmt,
     QuotedOutAmount |-> quotedOut, QuotedInAmount |-> quotedIn,
     SlippageBps |-> slip, PlatformFeeBps |-> fee, MinAmountOut |-> minOut]

\* SlippageFraction with 1000 as the divisor
SlippageFractionOfThousand(slippageBps) == F64Quo(F64FromUint(NFromInt(slippageBps)), 1000)

\* float64(slippageBps)/10000.0
SlippageFraction(slippageBps) == F64Quo(F64FromUint(NFromInt(slippageBps)), 10000)

F64One == F64FromUint(<<1>>)

\* MinAmountOutOf with the slippage fraction added to 1.0
MinAmountOutOfSlippageAdded(quotedOutAmount, slippageBps) ==
    Uint64OfF64(F64Mul(F64FromUint(quotedOutAmount),
                       F64Add(F64One, SlippageFraction(slippageBps))))

\* uint64(float64(quotedOutAmount) * (1.0 - float64(slippageBps)/10000.0))
MinAmountOutOf(quotedOutAmount, slippageBps) ==
    Uint64OfF64(F64Mul(F64FromUint(quotedOutAmount),
                       F64Sub(F64One, SlippageFraction(slippageBps))))

\* uint64(float64(inAmount) * (1.0 + float64(slippageBps)/10000.0))
MaxAmountInOf(inAmount, slippageBps) ==
    Uint64OfF64(F64Mul(F64FromUint(inAmount),
                       F64Add(F64One, SlippageFraction(slippageBps))))

\* make([]RoutePlanStep, routePlanCount).  A RoutePlanStep takes 16 bytes on
\* a 32-bit target and 32 bytes on a 64-bit one: from 2^28 entries on the
\* request exceeds what a 32-bit target can allocate (makeslice: len out of
\* range), and on a 64-bit target it is 8 GiB or more, which the machine
\* may or may not have.
MakeSliceLimit == <<0, 0, 0, 16>>

MakeMayFault(count) == NCmp(count, MakeSliceLimit) >= 0

-----------------------------------------------------------------------------
(* The decoder, phase by phase *)

Return(res, e) ==
    /\ pc' = "done"
    /\ result' = res
    /\ err' = e
    /\ UNCHANGED <<data, fn, instructionType, offset, id, routePlanCount, routePlan>>
    /\ UNCHANGED evars

Enter(f, type) ==
    /\ pc' = "count"
    /\ fn' = f
    /\ instructionType' = type
    /\ UNCHANGED <<data, offset, id, routePlanCount, routePlan, result, err>>
    /\ UNCHANGED evars

\* the parse function and instructionType the discriminator selects, in the
\* order of the if-else chain
Dispatch(discriminator) ==
    IF bytesEqual(discriminator, InstructionDiscriminators["route"])
    THEN <<"parseRouteInstruction", "route">>
    ELSE IF bytesEqual(discriminator, InstructionDiscriminators["routeWithTokenLedger"])
    THEN <<"parseRouteInstruction", "routeWithTokenLedger">>
    ELSE IF bytesEqual(discriminator, InstructionDiscriminators["sharedAccountsRoute"])
    THEN <<"parseSharedAccountsRoute", "sharedAccountsRoute">>
    ELSE IF bytesEqual(discriminator,
                       InstructionDiscriminators["sharedAccountsRouteWithTokenLedger"])
    THEN <<"parseSharedAccountsRoute", "sharedAccountsRouteWithTokenLedger">>
    ELSE IF bytesEqual(discriminator, InstructionDiscriminators["exactOutRoute"])
    THEN <<"parseExactOutRoute", "exactOutRoute">>
    ELSE IF bytesEqual(discriminator, InstructionDiscriminators["sharedAccountsExactOutRoute"])
    THEN <<"parseSharedAccountsRoute", "sharedAccountsExactOutRoute">>
    ELSE <<"", "">>

parseJupiterV6Instruction ==
    /\ pc = "call"
    /\ IF GoLen(data) < 8 THEN Return(Nil, "TooShort")
       ELSE LET sel == Dispatch(Slice(data, 0, 8))
            IN  IF sel[1] = "" THEN Return(Nil, "UnknownInstruction")
                ELSE Enter(sel[1], sel[2])

\* offset := first; routePlanCount := Uint32(data[offset:offset+4]);
\* offset += 4; routePlan := make([]RoutePlanStep, routePlanCount)
ReadCount(first, idByte) ==
    IF ~SliceOK(data, first, first + 4) THEN Return(Nil, "panic")
    ELSE LET count == Uint32(Slice(data, first, first + 4))
         IN  \/ /\ pc' = "loop"
                /\ id' = idByte
                /\ routePlanCount' = count
                /\ offset' = first + 4
                /\ routePlan' = <<>>
                /\ UNCHANGED <<data, fn, instructionType, result, err>>
                /\ UNCHANGED evars
             \/ /\ MakeMayFault(count)
                /\ Return(Nil, "panic")

\* for i := uint32(0); i < routePlanCount; i++ { ... }: one iteration
RoutePlanLoop ==
    /\ NCmp(NFromInt(Len(routePlan)), routePlanCount) < 0
    /\ LET r == parseRoutePlanStep(data, offset)
       IN  IF r.err # "nil" THEN Return(Nil, r.err)
           ELSE /\ routePlan' = Append(routePlan, r.step)
                /\ offset' = r.offset
                /\ UNCHANGED <<data, pc, fn, instructionType, id, routePlanCount,
                               result, err>>
                /\ UNCHANGED evars

LoopDone == NCmp(NFromInt(Len(routePlan)), routePlanCount) >= 0

\* the four trailing reads are in range
TailOK ==
    /\ SliceOK(data, offset, offset + 8)
    /\ SliceOK(data, offset + 8, offset + 16)
    /\ SliceOK(data, offset + 16, offset + 18)
    /\ IndexOK(data, offset + 18)

\* TailFirst read from the place of the second amount
TailFirstFromSecond == Uint64(Slice(data, offset + 8, offset + 16))

TailFirst == Uint64(Slice(data, offset, offset + 8))

TailSecond == Uint64(Slice(data, offset + 8, offset + 16))

TailSlippageBps == Uint16(Slice(data, offset + 16, offset + 18))

\* TailPlatformFeeBps read from the last byte of the buffer
TailPlatformFeeBpsLast == Index(data, GoLen(data) - 1)

TailPlatformFeeBps == Index(data, offset + 18)

parseRouteInstructionCount ==
    /\ pc = "count" /\ fn = "parseRouteInstruction"
    /\ ReadCount(8, 0)

parseRouteInstructionLoop ==
    /\ pc = "loop" /\ fn = "parseRouteInstruction"
    /\ RoutePlanLoop

parseRouteInstructionTail ==
    /\ pc = "loop" /\ fn = "parseRouteInstruction"
    /\ LoopDone
    /\ IF ~TailOK THEN Return(Nil, "panic")
       ELSE \E minAmountOut \in MinAmountOutOf(TailSecond, TailSlippageBps) :
              Return(JupiterSwapParams(instructionType, 0, routePlan,
                                       TailFirst, <<>>, TailSecond, <<>>,
                                       TailSlippageBps, TailPlatformFeeBps,
                                       minAmountOut), "nil")

\* parseSharedAccountsRouteCount without the id byte: the count at 8
parseSharedAccountsRouteCountNoId ==
    /\ pc = "count" /\ fn = "parseSharedAccountsRoute"
    /\ ReadCount(8, 0)

parseSharedAccountsRouteCount ==
    /\ pc = "count" /\ fn = "parseSharedAccountsRoute"
    /\ IF ~IndexOK(data, 8) THEN Return(Nil, "panic")
       ELSE ReadCount(9, Index(data, 8))

parseSharedAccountsRouteLoop ==
    /\ pc = "loop" /\ fn = "parseSharedAccountsRoute"
    /\ RoutePlanLoop

parseSharedAccountsRouteTail ==
    /\ pc = "loop" /\ fn = "parseSharedAccountsRoute"
    /\ LoopDone
    /\ IF ~TailOK THEN Return(Nil, "panic")
       ELSE IF instructionType = "sharedAccountsExactOutRoute"
       THEN \E maxAmountIn \in MaxAmountInOf(TailSecond, TailSlippageBps) :
              Return(JupiterSwapParams(instructionType, id, routePlan,
                                       <<>>, TailFirst, <<>>, TailSecond,
                                       TailSlippageBps, TailPlatformFeeBps,
                                       maxAmountIn), "nil")
       ELSE \E minAmountOut \in MinAmountOutOf(TailSecond, TailSlippageBps) :
              Return(JupiterSwapParams(instructionType, id, routePlan,
                                       TailFirst, <<>>, TailSecond, <<>>,
                                       TailSlippageBps, TailPlatformFeeBps,
                                       minAmountOut), "nil")

parseExactOutRouteCount ==
    /\ pc = "count" /\ fn = "parseExactOutRoute"
    /\ ReadCount(8, 0)

parseExactOutRouteLoop ==
    /\ pc = "loop" /\ fn = "parseExactOutRoute"
    /\ RoutePlanLoop

\* parseExactOutRouteTail deriving the amount with the formula of the
\* route kinds
parseExactOutRouteTailMin ==
    /\ pc = "loop" /\ fn = "parseExactOutRoute"
    /\ LoopDone
    /\ IF ~TailOK THEN Return(Nil, "panic")
       ELSE \E minAmountOut \in MinAmountOutOf(TailSecond, TailSlippageBps) :
              Return(JupiterSwapParams(instructionType, 0, routePlan,
                                       <<>>, TailFirst, <<>>, TailSecond,
                                       TailSlippageBps, TailPlatformFeeBps,
                                       minAmountOut), "nil")

parseExactOutRouteTail ==
    /\ pc = "loop" /\ fn = "parseExactOutRoute"
    /\ LoopDone
    /\ IF ~TailOK THEN Return(Nil, "panic")
       ELSE \E maxAmountIn \in MaxAmountInOf(TailSecond, TailSlippageBps) :
              Return(JupiterSwapParams(instructionType, 0, routePlan,
                                       <<>>, TailFirst, <<>>, TailSecond,
                                       TailSlippageBps, TailPlatformFeeBps,
                                       maxAmountIn), "nil")

-----------------------------------------------------------------------------
(* Next-state relation *)

Next ==
    \/ parseJupiterV6Instruction
    \/ parseRouteInstructionCount
    \/ parseRouteInstructionLoop
    \/ parseRouteInstructionTail
    \/ parseSharedAccountsRouteCount
    \/ parseSharedAccountsRouteLoop
    \/ parseSharedAccountsRouteTail
    \/ parseExactOutRouteCount
    \/ parseExactOutRouteLoop
    \/ parseExactOutRouteTail

-----------------------------------------------------------------------------
(* Input buffers *)

\* steps of a generated route plan
MaxSteps == 2

\* the two buffers of testJupiterParsing
FixtureSharedAccountsRoute ==
    <<193, 32, 155, 51, 65, 214, 156, 129, 0, 4, 0, 0, 0, 7, 95, 0,
    2, 17, 0, 5, 0, 2, 17, 1, 100, 2, 3, 61, 0, 100, 3, 4,
    38, 38, 246, 0, 4, 0, 0, 0, 93, 97, 4, 13, 0, 0, 0, 0,
    100, 0, 0>>

FixtureRoute ==
    <<229, 23, 203, 151, 122, 227, 173, 42, 1, 0, 0, 0, 72, 100, 0, 1,
    73, 126, 204, 1, 0, 0, 0, 0, 70, 245, 130, 142, 4, 0, 0, 0,
    172, 3, 85>>

\* parameter bytes that follow a tag on the wire
WireWidth(tag) ==
    CASE tag \in {8, 12, 15, 16, 17, 18, 21, 23, 24, 27, 28, 39, 47, 58, 60, 61} -> 1
      [] tag = 29 -> 16
      [] tag \in {33, 41} -> 4
      [] tag = 42 -> 3
      [] tag = 43 -> 10
      [] tag \in {44, 45} -> 5
      [] OTHER -> 0

\* a numeral as w little-endian bytes
LEBytes(n, w) == n \o Zeros(w - Len(n))

\* step j of a plan on the wire: tag, parameter bytes, percent, input
\* index, output index; v varies the parameter bytes
StepBytes(tag, j, v) ==
    <<tag>> \o [k \in 1..WireWidth(tag) |-> (v + j + 5 * (k - 1)) % 256]
            \o <<(90 + j) % 256, (10 + j) % 256, (20 + j) % 256>>

RECURSIVE PlanBytes(_, _, _)
PlanBytes(tags, j, v) ==
    IF j > Len(tags) THEN <<>>
    ELSE StepBytes(tags[j], j - 1, v) \o PlanBytes(tags, j + 1, v)

SharedKinds == {"sharedAccountsRoute", "sharedAccountsRouteWithTokenLedger",
                "sharedAccountsExactOutRoute"}

ExactOutKinds == {"exactOutRoute", "sharedAccountsExactOutRoute"}

\* discriminator, id byte of the shared-accounts kinds, count, steps, the
\* 19 trailing bytes
Wire(kind, idByte, count, steps, first, second, slippageBps, fee) ==
    InstructionDiscriminators[kind]
      \o (IF kind \in SharedKinds THEN <<idByte>> ELSE <<>>)
      \o LEBytes(count, 4) \o steps
      \o LEBytes(first, 8) \o LEBytes(second, 8)
      \o LEBytes(NFromInt(slippageBps), 2) \o <<fee>>

TagSample == {7, 17, 29, 42, 72}

FillSample == {0, 1, 2, 246, 251, 255}

AmountSample ==
    { <<>>, <<1>>, <<5>>, <<10>>, <<25>>, <<64, 66, 15>>,
      <<3, 0, 0, 0, 0, 0, 8>>,
      <<1, 0, 0, 0, 0, 0, 32>>,
      <<3, 0, 0, 0, 0, 0, 32>>,
      <<0, 248, 255, 255, 255, 255, 255, 255>>,
      TwoTo63, MaxUint64 }

SlippageSample == {0, 1, 3, 50, 100, 5600, 8000, 9000, 9999, 10000, 10001, 65535}

CountSample == {MakeSliceLimit, <<255, 255, 255, 255>>}

Plans == UNION {[1..k -> TagSample] : k \in 0..MaxSteps}

\* one step of every tag, well formed
AllTagInputs ==
    { Wire(kind, 3, <<1>>, StepBytes(tag, 0, v), <<232, 3>>, <<64, 66, 15>>, 50, 85) :
        kind \in Kinds, tag \in 0..255, v \in FillSample }

\* plans of up to MaxSteps steps; the count field is the number of steps
\* or one more
PlanInputs ==
    { Wire(kind, 3, NFromInt(Len(p) + more), PlanBytes(p, 1, 0),
           <<232, 3>>, <<64, 66, 15>>, 50, 85) :
        kind \in Kinds, p \in Plans, more \in {0, 1} }

\* empty plans with the amounts and slippage varied
AmountInputs ==
    { Wire(kind, 0, <<>>, <<>>, <<232, 3>>, amount, s, 0) :
        kind \in Kinds, amount \in AmountSample, s \in SlippageSample }

\* count fields far beyond the buffer
BigCountInputs ==
    { Wire(kind, 3, count, StepBytes(17, 0, 1), <<232, 3>>, <<64, 66, 15>>, 50, 85) :
        kind \in Kinds, count \in CountSample }

\* first 8 bytes that are no instruction discriminator
UnknownInputs ==
    { disc \o SubSeq(FixtureRoute, 9, Len(FixtureRoute)) :
        disc \in { SwapEventDiscriminator, Zeros(8),
                   <<229, 23, 203, 151, 122, 227, 173, 43>>,
                   <<228, 23, 203, 151, 122, 227, 173, 42>> } }

FullInputs ==
    {FixtureSharedAccountsRoute, FixtureRoute} \cup AllTagInputs \cup PlanInputs
      \cup AmountInputs \cup UnknownInputs

TruncInputs == {FixtureSharedAccountsRoute, FixtureRoute} \cup PlanInputs

\* A call on a whole buffer of whole, or on the first n bytes of a buffer
\* of cut; the capacity of a cut buffer is its length or reaches to the end
\* of the whole one.
InitOn(whole, cut) ==
    /\ \/ \E full \in whole : data = [arr |-> full, len |-> Len(full)]
       \/ \E full \in cut : \E n \in 0..(Len(full) - 1) :
            \E c \in {n, Len(full)} : data = [arr |-> SubSeq(full, 1, c), len |-> n]
    /\ pc = "call"
    /\ fn = ""
    /\ instructionType = ""
    /\ offset = 0
    /\ id = 0
    /\ routePlanCount = <<>>
    /\ routePlan = <<>>
    /\ result = Nil
    /\ err = "nil"
    /\ tx = Nil
    /\ step = "idle"
    /\ innerAt = <<1, 1>>
    /\ logAt = 1
    /\ events = <<>>
    /\ parsed = Nil
    /\ summary = Nil
    /\ analysis = Nil
    /\ stdout = Nil

Init == InitOn(FullInputs, TruncInputs)

\* the same calls, and calls on buffers whose count field is huge
InitBigCount == InitOn(FullInputs \cup BigCountInputs, TruncInputs \cup BigCountInputs)

Spec == Init /\ [][Next]_vars

SpecBigCount == InitBigCount /\ [][Next]_vars


-----------------------------------------------------------------------------
(* The wire format, read off a buffer without the decoder *)

\* the bytes of the input buffer
Buf == SubSeq(data.arr, 1, data.len)

\* the kind whose discriminator the buffer starts with, "" when none
KindOf(B) ==
    IF Len(B) >= 8 /\ \E k \in Kinds : SubSeq(B, 1, 8) = InstructionDiscriminators[k]
    THEN CHOOSE k \in Kinds : SubSeq(B, 1, 8) = InstructionDiscriminators[k]
    ELSE ""

\* where the route-plan steps start
HeaderLen(kind) == IF kind \in SharedKinds THEN 13 ELSE 12

RECURSIVE NToInt(_)
NToInt(n) == IF Len(n) = 0 THEN 0 ELSE n[1] + 256 * NToInt(SubSeq(n, 2, Len(n)))

\* the count field of a buffer that holds its header
CountField(B) == NNorm(SubSeq(B, HeaderLen(KindOf(B)) - 3, HeaderLen(KindOf(B))))

\* the count field as a number of steps to look for: one more than the
\* buffer can hold when the field is larger than the buffer
StepsDeclared(B) ==
    IF NCmp(CountField(B), NFromInt(Len(B))) > 0 THEN Len(B) + 1
    ELSE NToInt(CountField(B))

\* the position after n whole steps from position pos, -1 when the buffer
\* ends before or inside one of them
RECURSIVE StepsEnd(_, _, _)
StepsEnd(B, pos, n) ==
    IF n = 0 THEN pos
    ELSE IF pos >= Len(B) THEN -1
    ELSE IF pos + 4 + WireWidth(B[pos + 1]) > Len(B) THEN -1
    ELSE StepsEnd(B, pos + 4 + WireWidth(B[pos + 1]), n - 1)

\* the position after the declared steps, -1 when the buffer ends inside them
PlanEnd(B) == StepsEnd(B, HeaderLen(KindOf(B)), StepsDeclared(B))

\* B starts with a known discriminator, holds its header and ends inside
\* the route-plan array
EndsInsidePlan(B) ==
    /\ KindOf(B) # ""
    /\ Len(B) >= HeaderLen(KindOf(B))
    /\ PlanEnd(B) = -1

\* B starts with a known discriminator and is too short for the id byte,
\* the count or the 19 trailing bytes
ShortOfFixedFields(B) ==
    /\ KindOf(B) # ""
    /\ \/ Len(B) < HeaderLen(KindOf(B))
       \/ /\ Len(B) >= HeaderLen(KindOf(B))
          /\ PlanEnd(B) # -1
          /\ Len(B) < PlanEnd(B) + 19

Returned == pc = "done"

Decoded == pc = "done" /\ err = "nil"

-----------------------------------------------------------------------------
(* Claims *)

\* C1: a buffer with a known discriminator that ends inside the route-plan
\* array (before a tag byte, inside the parameter bytes, or before the
\* percent, input-index or output-index byte) makes the decoder return a
\* TruncatedBuffer error and no record; it never faults.
C1_TruncatedPlanIsAnError ==
    (Returned /\ EndsInsidePlan(Buf)) => (err = "TruncatedBuffer" /\ result = Nil)

\* C2: a buffer of 8 bytes or more with a known discriminator that is too
\* short for the id byte, the 4-byte count or the 19 trailing bytes makes
\* the decoder return a TruncatedBuffer error, not fault.
C2_ShortFixedFieldsIsAnError ==
    (Returned /\ ShortOfFixedFields(Buf)) => err = "TruncatedBuffer"

\* C3: the discriminators are pairwise distinct, and every buffer is
\* classified by one rule: shorter than 8 bytes is TooShort; first 8 bytes
\* equal to a discriminator selects the kind that owns it; anything else is
\* UnknownInstruction with nothing of the route plan read.
C3_Classification ==
    /\ \A j, k \in Kinds :
         j # k => InstructionDiscriminators[j] # InstructionDiscriminators[k]
    /\ pc # "call" =>
         IF Len(Buf) < 8
         THEN Returned /\ err = "TooShort" /\ result = Nil
         ELSE IF \E k \in Kinds : SubSeq(Buf, 1, 8) = InstructionDiscriminators[k]
         THEN /\ SubSeq(Buf, 1, 8) = InstructionDiscriminators[instructionType]
              /\ err \notin {"TooShort", "UnknownInstruction"}
              /\ result # Nil => result.InstructionType = instructionType
         ELSE /\ Returned /\ err = "UnknownInstruction" /\ result = Nil
              /\ offset = 0 /\ routePlanCount = <<>> /\ routePlan = <<>>

C3_Witness ==
    /\ Decoded
    /\ result.InstructionType = "sharedAccountsExactOutRoute"
    /\ SubSeq(Buf, 1, 8) = InstructionDiscriminators["sharedAccountsExactOutRoute"]

\* the tags decodeSwapType has a case for
RecognizedTags == (0..61) \cup {76, 108, 109}

\* an iteration of the route-plan loop that appended a step
StepAppended ==
    /\ pc = "loop" /\ pc' = "loop"
    /\ Len(routePlan') = Len(routePlan) + 1

\* C4: a decoded step moves the cursor past its tag byte, exactly the
\* parameter width of the table for that tag (1 for 8,12,15,16,17,18,21,23,
\* 24,27,28,39,47,58,60,61; 16 for 29; 4 for 33 and 41; 3 for 42; 10 for 43;
\* 5 for 44 and 45; 0 otherwise) and the three trailing bytes; a tag outside
\* {0..61,76,108,109} whose step header is in the buffer always decodes, to
\* the variant "Unknown_<tag>" without parameters.
C4_TagWidths ==
    [][ (pc = "loop" /\ ~LoopDone /\ offset + 4 <= Len(Buf)) =>
          LET tag == Buf[offset + 1]
          IN  /\ updateOffsetForSwapType(tag, offset + 1) = offset + 1 + WireWidth(tag)
              /\ StepAppended => offset' = offset + 1 + WireWidth(tag) + 3
              /\ tag \notin RecognizedTags =>
                    /\ StepAppended
                    /\ routePlan'[Len(routePlan')].Swap =
                         [Type |-> "Unknown_" \o ToString(tag), Params |-> <<>>]
      ]_vars

C4_Witness ==
    /\ pc = "loop" /\ Len(routePlan) = 2
    /\ routePlan[1].Swap.Type = "Unknown_72"
    /\ Buf[offset - 6] = 42
    /\ offset = HeaderLen(instructionType) + 4 + 7

\* the name of the variant a tag selects
TypeOfTag(tag) ==
    IF \E e \in SwapTypeToIndex : e[2] = tag
    THEN (CHOOSE e \in SwapTypeToIndex : e[2] = tag)[1]
    ELSE "Unknown_" \o ToString(tag)

\* step j of the decoded plan is the j-th step on the wire of B
StepMatchesWire(B, plan, j) ==
    LET pos == StepsEnd(B, HeaderLen(KindOf(B)), j - 1)
        tag == B[pos + 1]
        w   == WireWidth(tag)
    IN  /\ pos # -1
        /\ plan[j].Swap.Type   = TypeOfTag(tag)
        /\ plan[j].Percent     = B[pos + 1 + w + 1]
        /\ plan[j].InputIndex  = B[pos + 1 + w + 2]
        /\ plan[j].OutputIndex = B[pos + 1 + w + 3]

\* C5: a successful decode returns exactly as many steps as the 32-bit
\* little-endian count field says, in wire order, and each step's percent,
\* input index and output index are the three bytes after that step's tag
\* and parameter bytes.  The SharedAccountsRoute fixture decodes to
\* sharedAccountsRoute, id 0, 4 steps; the Route fixture to route, 1 step.
C5_RoutePlanFollowsWire ==
    /\ Decoded =>
         /\ NFromInt(Len(result.RoutePlan)) = CountField(Buf)
         /\ \A j \in 1..Len(result.RoutePlan) : StepMatchesWire(Buf, result.RoutePlan, j)
    /\ (Returned /\ Buf = FixtureSharedAccountsRoute) =>
         /\ Decoded
         /\ result.InstructionType = "sharedAccountsRoute"
         /\ result.ID = 0
         /\ Len(result.RoutePlan) = 4
    /\ (Returned /\ Buf = FixtureRoute) =>
         /\ Decoded
         /\ result.InstructionType = "route"
         /\ Len(result.RoutePlan) = 1

C5_Witness ==
    /\ Decoded /\ Buf = FixtureSharedAccountsRoute
    /\ Len(result.RoutePlan) = 4
    /\ result.RoutePlan[2].Percent = 5
    /\ result.RoutePlan[3].InputIndex = 2 /\ result.RoutePlan[3].OutputIndex = 3

\* the kinds whose trailing amounts are inAmount, quotedOutAmount
RouteKinds == Kinds \ ExactOutKinds

\* the trailing fields of B, read at the end of its route plan
WireFirst(B) == NNorm(SubSeq(B, PlanEnd(B) + 1, PlanEnd(B) + 8))

WireSecond(B) == NNorm(SubSeq(B, PlanEnd(B) + 9, PlanEnd(B) + 16))

WireSlippageBps(B) == B[PlanEnd(B) + 17] + 256 * B[PlanEnd(B) + 18]

WirePlatformFeeBps(B) == B[PlanEnd(B) + 19]

\* C6: for route, routeWithTokenLedger, sharedAccountsRoute and
\* sharedAccountsRouteWithTokenLedger the 19 bytes after the last route
\* step are, in this order, InAmount (u64 LE), QuotedOutAmount (u64 LE),
\* SlippageBps (u16 LE) and PlatformFeeBps (u8); OutAmount and
\* QuotedInAmount of the result stay zero.
C6_RouteTrailingFields ==
    (Decoded /\ result.InstructionType \in RouteKinds) =>
       /\ PlanEnd(Buf) # -1
       /\ result.InAmount        = WireFirst(Buf)
       /\ result.QuotedOutAmount = WireSecond(Buf)
       /\ result.SlippageBps     = WireSlippageBps(Buf)
       /\ result.PlatformFeeBps  = WirePlatformFeeBps(Buf)
       /\ result.OutAmount = <<>>
       /\ result.QuotedInAmount = <<>>

C6_Witness ==
    /\ Decoded /\ result.InstructionType = "sharedAccountsRouteWithTokenLedger"
    /\ Len(result.RoutePlan) = 2
    /\ result.InAmount = <<232, 3>> /\ result.QuotedOutAmount = <<64, 66, 15>>
    /\ result.SlippageBps = 50 /\ result.PlatformFeeBps = 85

\* C7: for the three shared-accounts kinds the ID is byte 8 of the buffer
\* and the count is read from bytes 9..12; for route, routeWithTokenLedger
\* and exactOutRoute the count is read from bytes 8..11 and the ID of the
\* result is zero whatever the buffer holds.
C7_IdAndCountPosition ==
    /\ (pc = "loop" /\ Len(Buf) >= HeaderLen(instructionType)) =>
         IF instructionType \in SharedKinds
         THEN id = Buf[9] /\ routePlanCount = NNorm(SubSeq(Buf, 10, 13))
         ELSE id = 0 /\ routePlanCount = NNorm(SubSeq(Buf, 9, 12))
    /\ Decoded =>
         result.ID = IF result.InstructionType \in SharedKinds THEN Buf[9] ELSE 0

C7_Witness ==
    /\ Decoded /\ result.InstructionType = "sharedAccountsExactOutRoute"
    /\ result.ID = 3 /\ Buf[9] = 3
    /\ Len(result.RoutePlan) = 2 /\ SubSeq(Buf, 10, 13) = <<2, 0, 0, 0>>

\* C8: for exactOutRoute and sharedAccountsExactOutRoute the first u64
\* after the route plan is OutAmount and the second is QuotedInAmount,
\* then SlippageBps and PlatformFeeBps; InAmount and QuotedOutAmount stay
\* zero, and the MinAmountOut field holds the maximum input amount
\* derived from QuotedInAmount.
C8_ExactOutTrailingFields ==
    (Decoded /\ result.InstructionType \in ExactOutKinds) =>
       /\ PlanEnd(Buf) # -1
       /\ result.OutAmount      = WireFirst(Buf)
       /\ result.QuotedInAmount = WireSecond(Buf)
       /\ result.SlippageBps    = WireSlippageBps(Buf)
       /\ result.PlatformFeeBps = WirePlatformFeeBps(Buf)
       /\ result.InAmount = <<>>
       /\ result.QuotedOutAmount = <<>>
       /\ result.MinAmountOut \in MaxAmountInOf(WireSecond(Buf), WireSlippageBps(Buf))

C8_Witness ==
    /\ Decoded /\ result.InstructionType = "exactOutRoute"
    /\ result.OutAmount = <<232, 3>> /\ result.QuotedInAmount = <<64, 66, 15>>
    /\ result.SlippageBps = 50
    /\ result.MinAmountOut = <<199, 85, 15>>

\* floor(q * (10000 - s) / 10000), for s <= 10000
FloorMinAmountOut(q, s) == NDivSmall(NMulSmall(q, 10000 - s), 10000).q

\* floor(q * (10000 + s) / 10000)
FloorMaxAmountIn(q, s) == NDivSmall(NMulSmall(q, 10000 + s), 10000).q

\* the low 64 bits of a number
TruncU64(n) == NNorm(SubSeq(n, 1, Min(8, Len(n))))

\* |a - b|
NDist(a, b) == IF NCmp(a, b) >= 0 THEN NSub(a, b) ELSE NSub(b, a)

\* C9 as stated: for every u64 quoted amount and every u16 slippageBps the
\* MinAmountOut of the route kinds is floor(quotedOutAmount * (1 -
\* slippageBps/10000)), and for the exact-out kinds it is the quoted input
\* amount times (1 + slippageBps/10000) truncated to u64.
C9_ExactFloor ==
    Decoded =>
      IF result.InstructionType \in RouteKinds
      THEN /\ result.SlippageBps <= 10000
           /\ result.MinAmountOut =
                FloorMinAmountOut(result.QuotedOutAmount, result.SlippageBps)
      ELSE result.MinAmountOut =
             TruncU64(FloorMaxAmountIn(result.QuotedInAmount, result.SlippageBps))

\* 2^64 - 2^11: float64 of an amount up to here is below 2^64
RouteAmountLimit == <<0, 248, 255, 255, 255, 255, 255, 255>>

\* 2^64 - 2^16
ExactOutAmountLimit == <<0, 0, 255, 255, 255, 255, 255, 255>>

\* C9 amended: MinAmountOut is the float64 product truncated toward zero,
\* which is the exact value only up to rounding.  For the route kinds with
\* slippageBps <= 10000 and quotedOutAmount <= 2^64 - 2^11 it is within
\* 1 + floor(quotedOutAmount / 2^51) of floor(quotedOutAmount * (10000 -
\* slippageBps) / 10000); for the exact-out kinds with E = floor(
\* quotedInAmount * (10000 + slippageBps) / 10000) <= 2^64 - 2^16 it is
\* within 1 + floor(E / 2^49) of E.
C9_FloatAmountWithinTolerance ==
    Decoded =>
      IF result.InstructionType \in RouteKinds
      THEN /\ result.MinAmountOut \in
                MinAmountOutOf(WireSecond(Buf), WireSlippageBps(Buf))
           /\ (/\ result.SlippageBps <= 10000
               /\ NCmp(result.QuotedOutAmount, RouteAmountLimit) <= 0) =>
                 NCmp(NDist(result.MinAmountOut,
                            FloorMinAmountOut(result.QuotedOutAmount, result.SlippageBps)),
                      NAdd(<<1>>, NShr(result.QuotedOutAmount, 51))) <= 0
      ELSE LET E == FloorMaxAmountIn(result.QuotedInAmount, result.SlippageBps)
           IN  /\ result.MinAmountOut \in
                    MaxAmountInOf(WireSecond(Buf), WireSlippageBps(Buf))
               /\ NCmp(E, ExactOutAmountLimit) <= 0 =>
                     NCmp(NDist(result.MinAmountOut, E),
                          NAdd(<<1>>, NShr(E, 49))) <= 0

\* 5 at 8000 bps: the float64 product is below 1 and truncates to 0; the
\* exact value is 1
C9_Witness ==
    /\ Decoded /\ result.InstructionType = "route"
    /\ result.QuotedOutAmount = <<5>> /\ result.SlippageBps = 8000
    /\ result.MinAmountOut = <<>>
    /\ FloorMinAmountOut(result.QuotedOutAmount, result.SlippageBps) = <<1>>

\* C10: a route-kind instruction with quotedOutAmount 1_000_000 and
\* slippageBps 50 decodes with MinAmountOut 995000.
C10_HalfPercentOfAMillion ==
    (/\ Decoded /\ result.InstructionType \in RouteKinds
     /\ result.QuotedOutAmount = <<64, 66, 15>>
     /\ result.SlippageBps = 50) =>
       result.MinAmountOut = <<184, 46, 15>>

C10_Witness ==
    /\ Decoded /\ result.InstructionType = "routeWithTokenLedger"
    /\ WireSecond(Buf) = <<64, 66, 15>> /\ WireSlippageBps(Buf) = 50
    /\ result.MinAmountOut = <<184, 46, 15>>
    /\ NToInt(result.MinAmountOut) = 995000

\* C11: the flag byte of the variants with a boolean flag (tags 8, 17, 18,
\* 21, 23, 47, 58, 60, 61), of the variants with a side (tags 12, 15, 16,
\* 24, 27, 28, 39) and the two flag bytes of tag 42 decode by a nonzero
\* test: 0x00 is false / "Bid", every value 0x01..0xFF is true / "Ask".
C11_FlagIsNonzeroTest ==
    Decoded =>
      \A j \in 1..Len(result.RoutePlan) :
        LET pos    == StepsEnd(Buf, HeaderLen(KindOf(Buf)), j - 1)
            tag    == Buf[pos + 1]
            params == result.RoutePlan[j].Swap.Params
        IN  /\ tag \in {8, 17, 18, 21, 23, 47, 58, 60, 61} =>
                 /\ Cardinality(DOMAIN params) = 1
                 /\ \A key \in DOMAIN params : params[key] = (Buf[pos + 2] # 0)
            /\ tag \in {12, 15, 16, 24, 27, 28, 39} =>
                 params = [side |-> IF Buf[pos + 2] = 0 THEN "Bid" ELSE "Ask"]
            /\ tag = 42 =>
                 /\ params.quantity_is_input = (Buf[pos + 3] # 0)
                 /\ params.quantity_is_collateral = (Buf[pos + 4] # 0)

C11_Witness ==
    /\ Decoded /\ Len(result.RoutePlan) = 1
    /\ result.RoutePlan[1].Swap.Type = "Whirlpool"
    /\ Buf[HeaderLen(KindOf(Buf)) + 2] = 255
    /\ result.RoutePlan[1].Swap.Params = [a_to_b |-> TRUE]

-----------------------------------------------------------------------------
(* Swap events: parseJupiterSwapEvent *)

\* a Go slice whose capacity is its length
GoSlice(bytes) == [arr |-> bytes, len |-> Len(bytes)]

\* parseJupiterSwapEvent with the discriminator compared before the length
parseJupiterSwapEventDiscriminatorFirst(d) ==
    IF ~bytesEqual(SubSeq(d.arr, 1, Min(8, Len(d.arr))), SwapEventDiscriminator)
    THEN [event |-> Nil, err |-> "BadDiscriminator"]
    ELSE IF GoLen(d) < 128 THEN [event |-> Nil, err |-> "TooShort"]
    ELSE [event |-> [Discriminator |-> Slice(d, 0, 8),
                     Unknown       |-> Slice(d, 8, 16),
                     AMM           |-> Slice(d, 16, 48),
                     InputMint     |-> Slice(d, 48, 80),
                     InputAmount   |-> Uint64(Slice(d, 80, 88)),
                     OutputMint    |-> Slice(d, 88, 120),
                     OutputAmount  |-> Uint64(Slice(d, 120, 128))],
          err |-> "nil"]

\* parseJupiterSwapEvent with the input amount read from bytes [8, 16)
parseJupiterSwapEventAmountAtEight(d) ==
    IF GoLen(d) < 128 THEN [event |-> Nil, err |-> "TooShort"]
    ELSE IF ~bytesEqual(Slice(d, 0, 8), SwapEventDiscriminator)
    THEN [event |-> Nil, err |-> "BadDiscriminator"]
    ELSE [event |-> [Discriminator |-> Slice(d, 0, 8),
                     Unknown       |-> Slice(d, 8, 16),
                     AMM           |-> Slice(d, 16, 48),
                     InputMint     |-> Slice(d, 48, 80),
                     InputAmount   |-> Uint64(Slice(d, 8, 16)),
                     OutputMint    |-> Slice(d, 88, 120),
                     OutputAmount  |-> Uint64(Slice(d, 120, 128))],
          err |-> "nil"]

\* parseJupiterSwapEvent(data): [event, err]
parseJupiterSwapEvent(d) ==
    IF GoLen(d) < 128 THEN [event |-> Nil, err |-> "TooShort"]
    ELSE IF ~bytesEqual(Slice(d, 0, 8), SwapEventDiscriminator)
    THEN [event |-> Nil, err |-> "BadDiscriminator"]
    ELSE [event |-> [Discriminator |-> Slice(d, 0, 8),
                     Unknown       |-> Slice(d, 8, 16),
                     AMM           |-> Slice(d, 16, 48),
                     InputMint     |-> Slice(d, 48, 80),
                     InputAmount   |-> Uint64(Slice(d, 80, 88)),
                     OutputMint    |-> Slice(d, 88, 120),
                     OutputAmount  |-> Uint64(Slice(d, 120, 128))],
          err |-> "nil"]

\* parseJupiterSwapEventFromBase58(base58Data): data := []byte(base58Data),
\* the bytes of the text as they are
parseJupiterSwapEventFromBase58(base58Data) == parseJupiterSwapEvent(GoSlice(base58Data))

-----------------------------------------------------------------------------
(* Strings, as sequences of bytes *)

\* "Program data: "
ProgramDataMarker == <<80, 114, 111, 103, 114, 97, 109, 32, 100, 97, 116, 97, 58, 32>>

\* the first place at or after from where sep starts in str, 0 when none
StringsIndex(str, sep, from) ==
    LET at == {k \in from..(Len(str) - Len(sep) + 1) :
                 SubSeq(str, k, k + Len(sep) - 1) = sep}
    IN  IF at = {} THEN 0 ELSE CHOOSE k \in at : \A j \in at : k <= j

\* strings.Contains(str, sep)
StringsContains(str, sep) == StringsIndex(str, sep, 1) # 0

\* strings.Split(str, sep)[1] for a str that contains sep: the text between
\* the first sep and the next one, or the end
StringsSplitSecond(str, sep) ==
    LET from == StringsIndex(str, sep, 1) + Len(sep)
        next == StringsIndex(str, sep, from)
    IN  SubSeq(str, from, IF next = 0 THEN Len(str) ELSE next - 1)

\* strings.TrimSpace(str), on text without multi-byte white space; the
\* one-byte white space is \t \n \v \f \r and space
StringsTrimSpace(str) ==
    LET text == {k \in 1..Len(str) : str[k] \notin {9, 10, 11, 12, 13, 32}}
    IN  IF text = {} THEN <<>>
        ELSE SubSeq(str, CHOOSE k \in text : \A j \in text : k <= j,
                         CHOOSE k \in text : \A j \in text : k >= j)

-----------------------------------------------------------------------------
(* extractJupiterEvents *)

\* A transaction result is [Meta, Transaction].  Meta is Nil or
\* [InnerInstructions, LogMessages], each Nil or [list |-> sequence];
\* an inner-instruction group is [Instructions |-> sequence] of
\* [ProgramIDIndex, Data]; Transaction is [err, AccountKeys], err the
\* error of GetTransaction().  A log line is a sequence of bytes.

jupiterV6ProgramID == "JUP6LkbZbjS1jKKwapdHNy74zcZ3tLUZoi5QNyVTaV4"

\* the position of the next inner instruction at or after <<g, i>>;
\* <<Len(groups) + 1, 1>> when there is none
RECURSIVE InnerSeek(_, _, _)
InnerSeek(groups, g, i) ==
    IF g > Len(groups) THEN <<Len(groups) + 1, 1>>
    ELSE IF i > Len(groups[g].Instructions) THEN InnerSeek(groups, g + 1, 1)
    ELSE <<g, i>>

\* the call of parseJupiterSwapEvent on bytes, as parsed records it
ParseCall(bytes) ==
    LET r == parseJupiterSwapEvent(GoSlice(bytes))
    IN  [data |-> bytes, event |-> r.event, err |-> r.err]

\* InnerCandidate without the comparison of the program
InnerCandidateAnyProgram(inst) ==
    LET keys == tx.Transaction.AccountKeys
    IN  /\ inst.ProgramIDIndex < Len(keys) % 65536
        /\ Len(inst.Data) = 128
        /\ bytesEqual(SubSeq(inst.Data, 1, 8), SwapEventDiscriminator)

\* the conditions under which the body of the inner loops calls
\* parseJupiterSwapEvent on inst.Data
InnerCandidate(inst) ==
    LET keys == tx.Transaction.AccountKeys
    IN  /\ inst.ProgramIDIndex < Len(keys) % 65536
        /\ keys[inst.ProgramIDIndex + 1] = jupiterV6ProgramID
        /\ Len(inst.Data) = 128
        /\ bytesEqual(SubSeq(inst.Data, 1, 8), SwapEventDiscriminator)

\* what the body of the inner loops does with inst: the call of
\* parseJupiterSwapEvent, or Nil when there is none
InnerCall(inst) == IF InnerCandidate(inst) THEN ParseCall(inst.Data) ELSE Nil

\* what the body of the log loop does with logMsg
LogCall(logMsg) ==
    IF StringsContains(logMsg, ProgramDataMarker)
    THEN ParseCall(StringsTrimSpace(StringsSplitSecond(logMsg, ProgramDataMarker)))
    ELSE Nil

\* the events that a sequence of calls appends: those of the calls with
\* err == nil, in order
EventsOf(calls) ==
    LET ok == {k \in 1..Len(calls) : IF calls[k] = Nil THEN FALSE ELSE calls[k].err = "nil"}
    IN  [i \in 1..Cardinality(ok) |->
           calls[CHOOSE k \in ok : Cardinality({j \in ok : j <= k}) = i].event]

\* the events after a call, with a decoded event put in front
AppendDecodedInFront(evs, call) ==
    IF call.err = "nil" THEN <<call.event>> \o evs ELSE evs

\* the events after a call, with a failed call emptying the list
AppendDecodedOrReset(evs, call) ==
    IF call.err = "nil" THEN Append(evs, call.event) ELSE <<>>

\* if err == nil { events = append(events, *event) }
AppendDecoded(evs, call) ==
    IF call.err = "nil" THEN Append(evs, call.event) ELSE evs

\* var events []SwapEvent; the two early returns; else into the loops
extractJupiterEventsCall ==
    /\ step = "call"
    /\ events' = <<>>
    /\ IF tx.Meta = Nil \/ tx.Meta.InnerInstructions = Nil
       THEN step' = "returned" /\ UNCHANGED innerAt
       ELSE IF tx.Transaction.err # "nil"
       THEN step' = "returned" /\ UNCHANGED innerAt
       ELSE LET first == InnerSeek(tx.Meta.InnerInstructions.list, 1, 1)
            IN  /\ innerAt' = first
                /\ step' = IF first[1] > Len(tx.Meta.InnerInstructions.list)
                           THEN "logs" ELSE "inner"
    /\ UNCHANGED <<tx, logAt, parsed, summary, analysis, stdout, dvars>>

\* one iteration of the inner loop over innerInst.Instructions
extractJupiterEventsInner ==
    /\ step = "inner"
    /\ LET groups == tx.Meta.InnerInstructions.list
           inst   == groups[innerAt[1]].Instructions[innerAt[2]]
           next   == InnerSeek(groups, innerAt[1], innerAt[2] + 1)
           call   == InnerCall(inst)
       IN  /\ IF call # Nil
              THEN /\ parsed' = call
                   /\ events' = AppendDecoded(events, call)
              ELSE UNCHANGED <<parsed, events>>
           /\ innerAt' = next
           /\ step' = IF next[1] > Len(groups) THEN "logs" ELSE "inner"
    /\ UNCHANGED <<tx, logAt, summary, analysis, stdout, dvars>>

\* one iteration of the loop over tx.Meta.LogMessages
extractJupiterEventsLog ==
    /\ step = "logs"
    /\ tx.Meta.LogMessages # Nil
    /\ logAt <= Len(tx.Meta.LogMessages.list)
    /\ LET call == LogCall(tx.Meta.LogMessages.list[logAt])
       IN  IF call # Nil
           THEN /\ parsed' = call
                /\ events' = AppendDecoded(events, call)
           ELSE UNCHANGED <<parsed, events>>
    /\ logAt' = logAt + 1
    /\ UNCHANGED <<tx, step, innerAt, summary, analysis, stdout, dvars>>

\* return events, nil after the log loop
extractJupiterEventsReturn ==
    /\ step = "logs"
    /\ IF tx.Meta.LogMessages = Nil THEN TRUE
       ELSE logAt > Len(tx.Meta.LogMessages.list)
    /\ step' = "returned"
    /\ UNCHANGED <<tx, innerAt, logAt, events, parsed, summary, analysis, stdout, dvars>>

-----------------------------------------------------------------------------
(* generateSwapSummary *)

\* the base-58 digits of a numeral, most significant first, three digits
\* (58^3 = 195112) at a time
RECURSIVE Base58Digits(_)
Base58Digits(n) ==
    LET alphabet ==
            <<"1", "2", "3", "4", "5", "6", "7", "8", "9", "A", "B", "C",
              "D", "E", "F", "G", "H", "J", "K", "L", "M", "N", "P", "Q",
              "R", "S", "T", "U", "V", "W", "X", "Y", "Z", "a", "b", "c",
              "d", "e", "f", "g", "h", "i", "j", "k", "m", "n", "o", "p",
              "q", "r", "s", "t", "u", "v", "w", "x", "y", "z">>
        Digits(d) ==
            LET d1 == alphabet[(d.r \div 3364) + 1]
                d2 == alphabet[((d.r \div 58) % 58) + 1]
                d3 == alphabet[(d.r % 58) + 1]
            IN  IF ~NIsZero(d.q) THEN Base58Digits(d.q) \o d1 \o d2 \o d3
                ELSE IF d.r >= 3364 THEN d1 \o d2 \o d3
                ELSE IF d.r >= 58 THEN d2 \o d3
                ELSE d3
    IN  IF NIsZero(n) THEN ""
        ELSE CHOOSE str \in {Digits(d) : d \in {NDivSmall(n, 195112)}} : TRUE

\* PublicKey.String(): the base-58 text of the key's bytes, one "1" for
\* every leading zero byte and then the digits of the number
PublicKeyString(key) ==
    LET RECURSIVE LeadingZeros(_)
        LeadingZeros(k) ==
            IF k > Len(key) THEN ""
            ELSE IF key[k] # 0 THEN ""
            ELSE "1" \o LeadingZeros(k + 1)
    IN  LeadingZeros(1)
          \o Base58Digits(NNorm([k \in 1..Len(key) |-> key[Len(key) + 1 - k]]))

\* strings.Join(route, " -> ")
RECURSIVE StringsJoinArrow(_)
StringsJoinArrow(route) ==
    IF Len(route) = 0 THEN ""
    ELSE IF Len(route) = 1 THEN route[1]
    ELSE route[1] \o " -> " \o StringsJoinArrow(Tail(route))

\* generateSwapSummary with the output taken from the first event
generateSwapSummaryFirstOutput(instructions, evs) ==
    IF Len(evs) > 0
    THEN [TotalSwaps  |-> Len(evs),
          InputToken  |-> PublicKeyString(evs[1].InputMint),
          OutputToken |-> PublicKeyString(evs[1].OutputMint),
          TotalInput  |-> evs[1].InputAmount,
          TotalOutput |-> evs[1].OutputAmount,
          Route |-> StringsJoinArrow(
                      <<PublicKeyString(evs[1].InputMint)>>
                        \o [k \in 1..Len(evs) |-> PublicKeyString(evs[k].OutputMint)])]
    ELSE [TotalSwaps |-> Len(evs), InputToken |-> "", OutputToken |-> "",
          TotalInput |-> <<>>, TotalOutput |-> <<>>, Route |-> ""]

\* generateSwapSummary that counts the instructions when there is no event
generateSwapSummaryCountingInstructions(instructions, evs) ==
    IF Len(evs) > 0
    THEN [TotalSwaps  |-> Len(evs),
          InputToken  |-> PublicKeyString(evs[1].InputMint),
          OutputToken |-> PublicKeyString(evs[Len(evs)].OutputMint),
          TotalInput  |-> evs[1].InputAmount,
          TotalOutput |-> evs[Len(evs)].OutputAmount,
          Route |-> StringsJoinArrow(
                      <<PublicKeyString(evs[1].InputMint)>>
                        \o [k \in 1..Len(evs) |-> PublicKeyString(evs[k].OutputMint)])]
    ELSE [TotalSwaps |-> Len(instructions), InputToken |-> "", OutputToken |-> "",
          TotalInput |-> <<>>, TotalOutput |-> <<>>, Route |-> ""]

\* generateSwapSummary(instructions, events); a field that is not assigned
\* holds its zero value
generateSwapSummary(instructions, evs) ==
    IF Len(evs) > 0
    THEN [TotalSwaps  |-> Len(evs),
          InputToken  |-> PublicKeyString(evs[1].InputMint),
          OutputToken |-> PublicKeyString(evs[Len(evs)].OutputMint),
          TotalInput  |-> evs[1].InputAmount,
          TotalOutput |-> evs[Len(evs)].OutputAmount,
          Route |-> StringsJoinArrow(
                      <<PublicKeyString(evs[1].InputMint)>>
                        \o [k \in 1..Len(evs) |-> PublicKeyString(evs[k].OutputMint)])]
    ELSE [TotalSwaps |-> Len(evs), InputToken |-> "", OutputToken |-> "",
          TotalInput |-> <<>>, TotalOutput |-> <<>>, Route |-> ""]

\* analysis.Summary = generateSwapSummary(analysis.Instructions,
\* analysis.Events), whatever instructions were decoded before
analyzeJupiterV6TransactionSummary ==
    /\ step = "returned"
    /\ \E instructions \in
            IF analysis # Nil THEN {analysis.Instructions}
            ELSE { <<>>,
                   <<JupiterSwapParams("route", 0, <<>>, <<232, 3>>, <<>>, <<64, 66, 15>>,
                                       <<>>, 50, 85, <<184, 46, 15>>)>> } :
         summary' = generateSwapSummary(instructions, events)
    /\ step' = "summarized"
    /\ UNCHANGED <<tx, innerAt, logAt, events, parsed, analysis, stdout, dvars>>

NextEvents ==
    \/ extractJupiterEventsCall
    \/ extractJupiterEventsInner
    \/ extractJupiterEventsLog
    \/ extractJupiterEventsReturn
    \/ analyzeJupiterV6TransactionSummary

-----------------------------------------------------------------------------
(* Transactions handed to extractJupiterEvents *)

\* candidates of one source in a generated transaction
MaxCandidates == 2

\* base64.StdEncoding of bytes, as the bytes of the text
Base64Std(bytes) ==
    LET alphabet == [k \in 0..63 |-> IF k < 26 THEN 65 + k
                                     ELSE IF k < 52 THEN 97 + (k - 26)
                                     ELSE IF k < 62 THEN 48 + (k - 52)
                                     ELSE IF k = 62 THEN 43 ELSE 47]
    IN  [k \in 1..(4 * ((Len(bytes) + 2) \div 3)) |->
           LET g  == 3 * ((k - 1) \div 4)
               b1 == bytes[g + 1]
               b2 == IF g + 2 <= Len(bytes) THEN bytes[g + 2] ELSE 0
               b3 == IF g + 3 <= Len(bytes) THEN bytes[g + 3] ELSE 0
           IN  CASE k % 4 = 1 -> alphabet[b1 \div 4]
                 [] k % 4 = 2 -> alphabet[(b1 % 4) * 16 + b2 \div 16]
                 [] k % 4 = 3 -> IF g + 2 <= Len(bytes)
                                 THEN alphabet[(b2 % 16) * 4 + b3 \div 64] ELSE 61
                 [] OTHER     -> IF g + 3 <= Len(bytes) THEN alphabet[b3 % 64] ELSE 61]

\* 128-byte payloads: three swap events (discriminator, 8 opaque bytes,
\* AMM, input mint, input amount, output mint, output amount), the second
\* mint of B and the first of C with leading zero bytes; and one payload
\* that starts with an instruction discriminator
EventSample ==
    LET Key(k)  == [i \in 1..32 |-> (37 * k + 11 * i) % 256]
        KeyZ(k) == [i \in 1..32 |-> IF i <= 2 THEN 0 ELSE (37 * k + 11 * i) % 256]
        Bytes(disc, unknown, amm, inputMint, inputAmount, outputMint, outputAmount) ==
            disc \o unknown \o amm \o inputMint \o LEBytes(inputAmount, 8)
                 \o outputMint \o LEBytes(outputAmount, 8)
    IN  [A  |-> Bytes(SwapEventDiscriminator, Zeros(8), Key(9), Key(1), <<64, 66, 15>>,
                      Key(2), <<196, 9>>),
         B  |-> Bytes(SwapEventDiscriminator, <<1, 2, 3, 4, 5, 6, 7, 8>>, Key(10), Key(2),
                      <<196, 9>>, KeyZ(3), <<1, 0, 0, 0, 0, 0, 0, 128>>),
         C  |-> Bytes(SwapEventDiscriminator, <<255, 0, 255, 0, 255, 0, 255, 0>>, Key(11),
                      KeyZ(3), <<7>>, Key(1), MaxUint64),
         No |-> Bytes(InstructionDiscriminators["route"], Zeros(8), Key(9), Key(1), <<1>>,
                      Key(2), <<2>>)]

\* The transactions: both sources present with up to MaxCandidates
\* candidates each, the inner instructions in two groups cut at every
\* place; one odd candidate between two good ones; a source missing.
TxInputs ==
    LET keys == <<"11111111111111111111111111111111", jupiterV6ProgramID>>
        Inst(index, bytes) == [ProgramIDIndex |-> index, Data |-> bytes]
        Group(insts) == [Instructions |-> insts]
        List(items) == [list |-> items]
        Tx(inner, logs, e) ==
            [Meta |-> [InnerInstructions |-> inner, LogMessages |-> logs],
             Transaction |-> [err |-> e, AccountKeys |-> keys]]
        \* "Program log: Instruction: Route"
        logRoute == <<80, 114, 111, 103, 114, 97, 109, 32, 108, 111, 103, 58, 32,
                      73, 110, 115, 116, 114, 117, 99, 116, 105, 111, 110, 58, 32, 82, 111, 117, 116, 101>>
        lineC == ProgramDataMarker \o EventSample.C
        InstSet == {Inst(1, EventSample.A), Inst(1, EventSample.B)}
        LineSet == {lineC, ProgramDataMarker \o Base64Std(EventSample.A)}
        \* another program, an index beyond the account keys, another
        \* discriminator, a length other than 128
        InstOdd == {Inst(0, EventSample.A), Inst(2, EventSample.A),
                    Inst(1, EventSample.No),
                    Inst(65537, EventSample.A),
                    Inst(1, SubSeq(EventSample.A, 1, 127)),
                    Inst(1, EventSample.A \o <<0>>), Inst(1, <<>>)}
        \* no marker, white space around the payload, text before the
        \* marker, a second marker, a payload that is short, long, or no event
        LineOdd == {logRoute,
                    ProgramDataMarker \o <<32, 9>> \o EventSample.B \o <<13, 10>>,
                    logRoute \o lineC,
                    lineC \o ProgramDataMarker \o EventSample.A,
                    ProgramDataMarker \o SubSeq(EventSample.C, 1, 127),
                    ProgramDataMarker \o SubSeq(EventSample.No, 1, 100),
                    lineC \o <<1, 2, 3>>,
                    ProgramDataMarker \o EventSample.No,
                    ProgramDataMarker}
        SeqsUpTo(S, n) == UNION {[1..k -> S] : k \in 0..n}
        Groupings(flat) ==
            { <<Group(SubSeq(flat, 1, k)), Group(SubSeq(flat, k + 1, Len(flat)))>> :
                k \in 0..Len(flat) }
        one == List(<<Group(<<Inst(1, EventSample.A)>>)>>)
    IN  { Tx(List(groups), List(logs), "nil") :
            groups \in UNION {Groupings(flat) : flat \in SeqsUpTo(InstSet, MaxCandidates)},
            logs \in SeqsUpTo(LineSet, MaxCandidates) }
        \cup
        { Tx(List(<<Group(<<Inst(1, EventSample.A), odd, Inst(1, EventSample.B)>>)>>),
             List(<<lineC>>), "nil") : odd \in InstOdd }
        \cup
        { Tx(one, List(<<lineC, odd, ProgramDataMarker \o EventSample.B>>), "nil") :
            odd \in LineOdd }
        \cup
        { [Meta |-> Nil, Transaction |-> [err |-> "nil", AccountKeys |-> keys]],
          Tx(List(<<>>), Nil, "nil"),
          Tx(List(<<>>), List(<<lineC>>), "nil"),
          Tx(one, Nil, "nil") }
        \cup
        { Tx(Nil, List(logs), "nil") : logs \in SeqsUpTo(LineSet, 1) }
        \cup
        { Tx(one, List(logs), "error") : logs \in SeqsUpTo(LineSet, 1) }

InitEvents ==
    /\ tx \in TxInputs
    /\ step = "call"
    /\ innerAt = <<1, 1>>
    /\ logAt = 1
    /\ events = <<>>
    /\ parsed = Nil
    /\ summary = Nil
    /\ analysis = Nil
    /\ stdout = Nil
    /\ data = GoSlice(<<>>)
    /\ pc = "idle"
    /\ fn = ""
    /\ instructionType = ""
    /\ offset = 0
    /\ id = 0
    /\ routePlanCount = <<>>
    /\ routePlan = <<>>
    /\ result = Nil
    /\ err = "nil"

SpecEvents == InitEvents /\ [][NextEvents]_vars

-----------------------------------------------------------------------------
(* Claims on the swap events *)

\* C12: parseJupiterSwapEvent fails with TooShort on every buffer shorter
\* than 128 bytes, whatever its first bytes are; fails with BadDiscriminator
\* on a buffer of 128 bytes or more whose first 8 bytes are not the event
\* discriminator; decodes every other buffer; and returns an event exactly
\* when it returns no error.
C12_EventClassification ==
    parsed # Nil =>
      /\ parsed.err =
           IF Len(parsed.data) < 128 THEN "TooShort"
           ELSE IF SubSeq(parsed.data, 1, 8) # SwapEventDiscriminator
           THEN "BadDiscriminator"
           ELSE "nil"
      /\ (parsed.event = Nil) <=> (parsed.err # "nil")

\* a buffer of 100 bytes that starts with another discriminator is too short
C12_Witness ==
    /\ parsed # Nil
    /\ Len(parsed.data) = 100
    /\ SubSeq(parsed.data, 1, 8) = InstructionDiscriminators["route"]
    /\ parsed.err = "TooShort"
    /\ parsed.event = Nil

\* C13: a decoded event holds bytes [16,48) as AMM, [48,80) as InputMint,
\* the little-endian value of bytes [80,88) as InputAmount, bytes [88,120)
\* as OutputMint and the little-endian value of bytes [120,128) as
\* OutputAmount; the same buffer with other bytes at [8,16) decodes to the
\* same five values.
C13_EventFields ==
    (parsed # Nil /\ parsed.err = "nil") =>
      LET d == parsed.data
          Five(e) == <<e.AMM, e.InputMint, e.InputAmount, e.OutputMint, e.OutputAmount>>
      IN  /\ Five(parsed.event) =
                <<SubSeq(d, 17, 48), SubSeq(d, 49, 80), NNorm(SubSeq(d, 81, 88)),
                  SubSeq(d, 89, 120), NNorm(SubSeq(d, 121, 128))>>
          /\ \A opaque \in {Zeros(8), <<8, 7, 6, 5, 4, 3, 2, 1>>,
                              <<255, 255, 255, 255, 255, 255, 255, 255>>} :
                LET other == parseJupiterSwapEvent(
                                 GoSlice(SubSeq(d, 1, 8) \o opaque \o SubSeq(d, 17, Len(d))))
                IN  /\ other.err = "nil"
                    /\ other.event.Unknown = opaque
                    /\ Five(other.event) = Five(parsed.event)

\* an event with opaque bytes 1..8, 2500 in and 2^63 + 1 out
C13_Witness ==
    /\ parsed # Nil
    /\ parsed.err = "nil"
    /\ SubSeq(parsed.data, 9, 16) = <<1, 2, 3, 4, 5, 6, 7, 8>>
    /\ parsed.event.Unknown = <<1, 2, 3, 4, 5, 6, 7, 8>>
    /\ parsed.event.InputAmount = <<196, 9>>
    /\ parsed.event.OutputAmount = <<1, 0, 0, 0, 0, 0, 0, 128>>
    /\ parsed.event.OutputMint[1] = 0

\* C14: when the transaction has no inner-instruction list, or its message
\* cannot be read, extractJupiterEvents still returns every event that its
\* log lines yield.
C14_LogsScannedWithoutInnerSource ==
    ( /\ step = "returned"
      /\ tx.Meta # Nil
      /\ tx.Meta.LogMessages # Nil
      /\ IF tx.Meta.InnerInstructions = Nil THEN TRUE ELSE tx.Transaction.err # "nil" )
      => LET lines == tx.Meta.LogMessages.list
         IN  events = EventsOf([k \in 1..Len(lines) |-> LogCall(lines[k])])

\* C15: after a scan of the log lines, the swap event whose base64 text
\* follows "Program data: " in a line is among the returned events.
C15_EncodedLogPayloadIsDecoded ==
    ( /\ step = "returned"
      /\ tx.Meta # Nil
      /\ tx.Meta.InnerInstructions # Nil
      /\ tx.Transaction.err = "nil"
      /\ tx.Meta.LogMessages # Nil )
      => LET lines == tx.Meta.LogMessages.list
         IN  \A k \in 1..Len(lines) :
               \A bytes \in {EventSample.A, EventSample.B, EventSample.C} :
                 lines[k] = ProgramDataMarker \o Base64Std(bytes)
                   => \E i \in 1..Len(events) :
                        events[i] = parseJupiterSwapEvent(GoSlice(bytes)).event

\* C16: after a scan of both sources, the returned list is the events of
\* the inner instructions, group by group and instruction by instruction,
\* followed by the events of the log lines, line by line.
C16_InnerEventsThenLogEvents ==
    ( /\ step = "returned"
      /\ tx.Meta # Nil
      /\ tx.Meta.InnerInstructions # Nil
      /\ tx.Transaction.err = "nil" )
      => LET groups == tx.Meta.InnerInstructions.list
             RECURSIVE Flat(_)
             Flat(n) == IF n = 0 THEN <<>> ELSE Flat(n - 1) \o groups[n].Instructions
             insts == Flat(Len(groups))
             lines == IF tx.Meta.LogMessages = Nil THEN <<>> ELSE tx.Meta.LogMessages.list
         IN  events = EventsOf([k \in 1..Len(insts) |-> InnerCall(insts[k])])
                        \o EventsOf([k \in 1..Len(lines) |-> LogCall(lines[k])])

\* two inner groups with one event each and one event in the logs
C16_Witness ==
    /\ step = "returned"
    /\ tx.Meta # Nil
    /\ tx.Meta.InnerInstructions # Nil
    /\ Len(tx.Meta.InnerInstructions.list) = 2
    /\ Len(tx.Meta.InnerInstructions.list[1].Instructions) = 1
    /\ Len(tx.Meta.InnerInstructions.list[2].Instructions) = 1
    /\ Len(events) = 3
    /\ events[1].InputAmount = <<64, 66, 15>>
    /\ events[2].InputAmount = <<196, 9>>
    /\ events[3].InputAmount = <<7>>
    /\ events[1] = parseJupiterSwapEvent(GoSlice(tx.Meta.InnerInstructions.list[1].Instructions[1].Data)).event
    /\ events[3] = parseJupiterSwapEvent(GoSlice(EventSample.C)).event

C18_SummaryOfEvents ==
    (step = "summarized" /\ Len(events) > 0) =>
      LET last  == events[Len(events)]
          route == [k \in 1..(Len(events) + 1) |->
                      IF k = 1 THEN PublicKeyString(events[1].InputMint)
                      ELSE PublicKeyString(events[k - 1].OutputMint)]
      IN  /\ summary.TotalSwaps = Len(events)
          /\ summary.InputToken = PublicKeyString(events[1].InputMint)
          /\ summary.TotalInput = events[1].InputAmount
          /\ summary.OutputToken = PublicKeyString(last.OutputMint)
          /\ summary.TotalOutput = last.OutputAmount
          /\ Len(route) = summary.TotalSwaps + 1
          /\ summary.Route = StringsJoinArrow(route)

\* two events, 1000000 in and 2^63 + 1 out
C18_Witness ==
    /\ step = "summarized"
    /\ Len(events) = 2
    /\ summary.TotalSwaps = 2
    /\ summary.InputToken = "4FGzZANCaaLFsUWeSryS6a2pQaPzZuGbARcUbMpGnKRv"
    /\ summary.TotalInput = <<64, 66, 15>>
    /\ summary.OutputToken = "11VyajU9qCGXuNhbr4mGA9EPWkN5nwaWRhRja14erpE"
    /\ summary.TotalOutput = <<1, 0, 0, 0, 0, 0, 0, 128>>
    /\ summary.Route = "4FGzZANCaaLFsUWeSryS6a2pQaPzZuGbARcUbMpGnKRv"
                          \o " -> 6kGvrJbaTcKe2pmRav3Rrx3Jkkqteu4uLmhYn199zBLD"
                          \o " -> 11VyajU9qCGXuNhbr4mGA9EPWkN5nwaWRhRja14erpE"

\* C19: the summary of an empty event list, whatever instructions were
\* decoded, has TotalSwaps = 0, empty InputToken, OutputToken and Route and
\* zero TotalInput and TotalOutput.
C19_SummaryOfNoEvents ==
    (step = "summarized" /\ Len(events) = 0) =>
      summary = [TotalSwaps |-> 0, InputToken |-> "", OutputToken |-> "",
                 TotalInput |-> <<>>, TotalOutput |-> <<>>, Route |-> ""]

\* no events although a log line carries an encoded payload
C19_Witness ==
    /\ step = "summarized"
    /\ events = <<>>
    /\ tx.Meta # Nil
    /\ tx.Meta.LogMessages # Nil
    /\ Len(tx.Meta.LogMessages.list) > 0
    /\ summary.TotalSwaps = 0
    /\ summary.InputToken = ""
    /\ summary.Route = ""

\* C26: an inner instruction adds an event to the result only if its
\* program index is within the account keys, the key there is the target
\* program, its data are exactly 128 bytes long and start with the event
\* discriminator; an instruction of the target program with 127 or 129
\* bytes, or of another program with a well-formed payload, adds none.
C26_InnerEventOnlyFromTargetProgramAnd128Bytes ==
    [][step = "inner" =>
         LET inst == tx.Meta.InnerInstructions.list[innerAt[1]].Instructions[innerAt[2]]
             keys == tx.Transaction.AccountKeys
         IN  events' # events =>
               /\ inst.ProgramIDIndex + 1 \in DOMAIN keys
               /\ keys[inst.ProgramIDIndex + 1] = jupiterV6ProgramID
               /\ Len(inst.Data) = 128
               /\ SubSeq(inst.Data, 1, 8) = SwapEventDiscriminator
               /\ events' = Append(events, parseJupiterSwapEvent(GoSlice(inst.Data)).event)]_vars

\* the inner instructions are a candidate, the same payload under another
\* program, and a candidate; the loops over them have added two events
C26_Witness ==
    /\ step = "logs"
    /\ logAt = 1
    /\ Len(tx.Meta.InnerInstructions.list) = 1
    /\ Len(tx.Meta.InnerInstructions.list[1].Instructions) = 3
    /\ tx.Meta.InnerInstructions.list[1].Instructions[2]
         = [ProgramIDIndex |-> 0, Data |-> EventSample.A]
    /\ Len(events) = 2
    /\ events[2].InputAmount = <<196, 9>>

-----------------------------------------------------------------------------
(* parseRoutePlanStep on a buffer that holds one step *)

\* the call parseRoutePlanStep(data, 0)
parseRoutePlanStepCall ==
    /\ pc = "step"
    /\ LET r == parseRoutePlanStep(data, offset)
       IN  /\ result' = r.step
           /\ offset' = r.offset
           /\ err' = r.err
    /\ pc' = "stepped"
    /\ UNCHANGED <<data, fn, instructionType, id, routePlanCount, routePlan, evars>>

\* one step of every tag that carries parameters and of two that carry
\* none, with each pattern of parameter bytes; the buffer ends with the
\* step or anywhere inside it
InitStep ==
    /\ \E tag \in {7, 72} \cup {t \in 0..61 : WireWidth(t) > 0} : \E v \in FillSample :
         \E n \in 0..(WireWidth(tag) + 4) :
            data = GoSlice(SubSeq(StepBytes(tag, 0, v), 1, n))
    /\ pc = "step"
    /\ fn = ""
    /\ instructionType = ""
    /\ offset = 0
    /\ id = 0
    /\ routePlanCount = <<>>
    /\ routePlan = <<>>
    /\ result = Nil
    /\ err = "nil"
    /\ tx = Nil
    /\ step = "idle"
    /\ innerAt = <<1, 1>>
    /\ logAt = 1
    /\ events = <<>>
    /\ parsed = Nil
    /\ summary = Nil
    /\ analysis = Nil
    /\ stdout = Nil

SpecStep == InitStep /\ [][parseRoutePlanStepCall]_vars

\* C20: for every tag that carries parameters and every sequence of
\* parameter bytes, the decoded variant determines the tag and the
\* parameter bytes: no other tag, and no other value of any parameter
\* byte, decodes to the same variant and parameters.
C20_DecodedStepDeterminesBytes ==
    (pc = "stepped" /\ err = "nil") =>
      LET tag   == data.arr[1]
          width == updateOffsetForSwapType(tag, 0)
          bytes == SubSeq(data.arr, 2, 1 + width)
          With(t, b) == decodeSwapType(t, GoSlice(b \o Zeros(16)), 0).swap
      IN  width > 0 =>
            /\ \A t \in 0..255 : With(t, bytes) = result.Swap => t = tag
            /\ \A k \in 1..width : \A b \in 0..255 :
                  With(tag, [bytes EXCEPT ![k] = b]) = result.Swap => b = bytes[k]

\* C20, amended: the decoded variant determines the tag, and it determines
\* every parameter byte except a flag or side byte that is not zero: all
\* the values 1..255 of such a byte decode to the same variant.
C20_DecodedStepDeterminesBytesUpToFlags ==
    (pc = "stepped" /\ err = "nil") =>
      LET tag   == data.arr[1]
          width == updateOffsetForSwapType(tag, 0)
          bytes == SubSeq(data.arr, 2, 1 + width)
          flags == IF tag = 42 THEN {2, 3} ELSE IF width = 1 THEN {1} ELSE {}
          With(t, b) == decodeSwapType(t, GoSlice(b \o Zeros(16)), 0).swap
      IN  width > 0 =>
            /\ \A t \in 0..255 : With(t, bytes) = result.Swap => t = tag
            /\ \A k \in 1..width : \A b \in 0..255 :
                  With(tag, [bytes EXCEPT ![k] = b]) = result.Swap
                    <=> \/ b = bytes[k]
                        \/ k \in flags /\ b # 0 /\ bytes[k] # 0

\* a Clone step with flag bytes 5 and 10 decodes as with flag bytes 1 and 1
C20_Witness ==
    /\ pc = "stepped"
    /\ err = "nil"
    /\ SubSeq(data.arr, 1, 4) = <<42, 0, 5, 10>>
    /\ result.Swap = [Type |-> "Clone",
                      Params |-> [pool_index |-> 0, quantity_is_input |-> TRUE,
                                  quantity_is_collateral |-> TRUE]]
    /\ result.Swap = decodeSwapType(42, GoSlice(<<0, 1, 1>>), 0).swap

\* C24: the variants with several parameter fields are decoded at fixed
\* places of their parameter bytes: tag 29 gives from_token_id = bytes
\* 0..7 and to_token_id = bytes 8..15 as little-endian 64-bit numbers;
\* tags 33 and 41 give bridge_stake_seed = bytes 0..3 as a little-endian
\* 32-bit number; tag 42 gives pool_index = byte 0 and the two flags from
\* bytes 1 and 2; tag 43 gives the two counts = bytes 0 and 1 and the
\* source and destination index = bytes 2..5 and 6..9; tags 44 and 45
\* give the count = byte 0 and the index = bytes 1..4.
C24_MultiFieldVariantsAtFixedPlaces ==
    (pc = "stepped" /\ err = "nil") =>
      LET tag == data.arr[1]
          P   == result.Swap.Params
          B(k) == data.arr[2 + k]
          LE(a, b) == NNorm([k \in 1..(b - a + 1) |-> B(a + k - 1)])
      IN  /\ tag = 29 =>
                P = [from_token_id |-> LE(0, 7), to_token_id |-> LE(8, 15)]
          /\ tag \in {33, 41} => P = [bridge_stake_seed |-> LE(0, 3)]
          /\ tag = 42 =>
                P = [pool_index |-> B(0), quantity_is_input |-> B(1) # 0,
                     quantity_is_collateral |-> B(2) # 0]
          /\ tag = 43 =>
                P = [src_lst_value_calc_accs |-> B(0), dst_lst_value_calc_accs |-> B(1),
                     src_lst_index |-> LE(2, 5), dst_lst_index |-> LE(6, 9)]
          /\ tag \in {44, 45} =>
                P = [lst_value_calc_accs |-> B(0), lst_index |-> LE(1, 4)]

\* a SanctumS step whose ten parameter bytes 246, 251, 0, 5, ..., 35 are
\* decoded as two counts and the indices 0x0F0A0500 and 0x231E1914
C24_Witness ==
    /\ pc = "stepped"
    /\ err = "nil"
    /\ GoLen(data) = 14
    /\ SubSeq(data.arr, 1, 11) = <<43, 246, 251, 0, 5, 10, 15, 20, 25, 30, 35>>
    /\ result.Swap.Type = "SanctumS"
    /\ result.Swap.Params.src_lst_value_calc_accs = 246
    /\ result.Swap.Params.dst_lst_index = <<20, 25, 30, 35>>

-----------------------------------------------------------------------------
(* The storage of a returned event *)

\* event, err := parseJupiterSwapEvent(data)
parseJupiterSwapEventCall ==
    /\ pc = "event"
    /\ parsed' = ParseCall(Slice(data, 0, GoLen(data)))
    /\ pc' = "parsed"
    /\ UNCHANGED <<data, fn, instructionType, offset, id, routePlanCount, routePlan,
                   result, err, tx, step, innerAt, logAt, events, summary,
                   analysis, stdout>>

\* data[i] = b by the caller, after the call has returned an event.
\* Discriminator: data[:8] and Unknown: data[8:16] are slices of the
\* caller's array and read what it holds now; PublicKeyFromBytes and Uint64
\* have copied the other fields out of it.
writeInputBuffer ==
    /\ pc = "parsed"
    /\ parsed.err = "nil"
    /\ \E i \in 0..(GoLen(data) - 1) : \E b \in {0, 255} :
         /\ data' = [data EXCEPT !.arr[i + 1] = b]
         /\ parsed' = [parsed EXCEPT !.event.Discriminator = Slice(data', 0, 8),
                                     !.event.Unknown = Slice(data', 8, 16)]
    /\ pc' = "written"
    /\ UNCHANGED <<fn, instructionType, offset, id, routePlanCount, routePlan,
                   result, err, tx, step, innerAt, logAt, events, summary,
                   analysis, stdout>>

InitStorage ==
    /\ data \in {GoSlice(EventSample.A), GoSlice(EventSample.B),
                  GoSlice(EventSample.C), GoSlice(EventSample.No)}
    /\ pc = "event"
    /\ fn = ""
    /\ instructionType = ""
    /\ offset = 0
    /\ id = 0
    /\ routePlanCount = <<>>
    /\ routePlan = <<>>
    /\ result = Nil
    /\ err = "nil"
    /\ tx = Nil
    /\ step = "idle"
    /\ innerAt = <<1, 1>>
    /\ logAt = 1
    /\ events = <<>>
    /\ parsed = Nil
    /\ summary = Nil
    /\ analysis = Nil
    /\ stdout = Nil

SpecStorage == InitStorage /\ [][parseJupiterSwapEventCall \/ writeInputBuffer]_vars

\* C21: a write to the input buffer after parseJupiterSwapEvent has
\* returned changes no field of the returned event, its Discriminator and
\* Unknown included; and the call leaves the input buffer as it was.
C21_ReturnedEventSharesNoStorage ==
    /\ pc = "written" => parsed.event = parseJupiterSwapEvent(GoSlice(parsed.data)).event
    /\ pc = "parsed" => data = GoSlice(parsed.data)

-----------------------------------------------------------------------------
(* printJSONFormat *)

\* the %d text of an unsigned integer, six decimal digits at a time
RECURSIVE FormatUint(_)
FormatUint(n) ==
    LET d == NDivSmall(n, 1000000)
        zeros == IF d.r < 10 THEN "00000" ELSE IF d.r < 100 THEN "0000"
                 ELSE IF d.r < 1000 THEN "000" ELSE IF d.r < 10000 THEN "00"
                 ELSE IF d.r < 100000 THEN "0" ELSE ""
    IN  IF NIsZero(d.q) THEN ToString(d.r)
        ELSE FormatUint(d.q) \o zeros \o ToString(d.r)

\* printJSONFormat(params): the members of the printed object in order,
\* each [key, text, quoted], text the characters printed for the value
\* and quoted whether they stand between double quotes; the member
\* route_plan holds the steps, which formatParams prints
printJSONFormat(params) ==
    LET Member(key, text, quoted) == <<[key |-> key, text |-> text, quoted |-> quoted]>>
        Amount(key, n) == IF ~NIsZero(n) THEN Member(key, FormatUint(n), TRUE) ELSE <<>>
    IN  Member("instruction_type", params.InstructionType, TRUE)
          \o (IF params.ID # 0 THEN Member("id", ToString(params.ID), FALSE) ELSE <<>>)
          \o <<[key |-> "route_plan", steps |-> params.RoutePlan]>>
          \o Amount("in_amount", params.InAmount)
          \o Amount("out_amount", params.OutAmount)
          \o Amount("quoted_out_amount", params.QuotedOutAmount)
          \o Amount("quoted_in_amount", params.QuotedInAmount)
          \o Member("slippage_bps", ToString(params.SlippageBps), TRUE)
          \o Member("platform_fee_bps", ToString(params.PlatformFeeBps), FALSE)

\* printJSONFormat(params) on a decoded instruction
printJSONFormatCall ==
    /\ pc = "done"
    /\ err = "nil"
    /\ stdout = Nil
    /\ stdout' = printJSONFormat(result)
    /\ UNCHANGED <<dvars, tx, step, innerAt, logAt, events, parsed, summary, analysis>>

SpecJSON == Init /\ [][Next \/ printJSONFormatCall]_vars

\* C22: in the object printJSONFormat prints for a decoded instruction,
\* each of in_amount, out_amount, quoted_out_amount, quoted_in_amount and
\* min_amount_out is a member exactly when the field is not zero, and is
\* then the quoted decimal text of the field; id is a member exactly when
\* it is not zero; slippage_bps and platform_fee_bps are always members.
C22_AmountsRenderedWhenNonzero ==
    stdout # Nil =>
        LET Has(key) == \E k \in 1..Len(stdout) : stdout[k].key = key
            Rendered(key, n) ==
                /\ Has(key) <=> ~NIsZero(n)
                /\ \A k \in 1..Len(stdout) :
                      stdout[k].key = key =>
                          stdout[k].quoted /\ stdout[k].text = FormatUint(n)
        IN  /\ Rendered("in_amount", result.InAmount)
            /\ Rendered("out_amount", result.OutAmount)
            /\ Rendered("quoted_out_amount", result.QuotedOutAmount)
            /\ Rendered("quoted_in_amount", result.QuotedInAmount)
            /\ Rendered("min_amount_out", result.MinAmountOut)
            /\ Has("id") <=> result.ID # 0
            /\ Has("slippage_bps")
            /\ Has("platform_fee_bps")

-----------------------------------------------------------------------------
(* analyzeJupiterV6Transaction: the loop over the message's instructions *)

MaxInstructions == 2

\* the head of one iteration of the loop over parsedTx.Message.Instructions:
\* an instruction of another program, or whose program index is beyond
\* the account keys, is passed over; an instruction of the target program
\* is handed to parseJupiterV6Instruction.  After the last instruction
\* extractJupiterEvents(tx) is called.
analyzeJupiterV6TransactionLoop ==
    /\ analysis # Nil
    /\ ~analysis.crashed
    /\ pc = "idle"
    /\ step = "idle"
    /\ LET message == analysis.parsedTx.Message
       IN  IF analysis.at > Len(message.Instructions)
           THEN /\ step' = "call"
                /\ UNCHANGED <<dvars, analysis>>
           ELSE LET inst == message.Instructions[analysis.at]
                IN  IF inst.ProgramIDIndex >= Len(message.AccountKeys)
                    THEN /\ analysis' = [analysis EXCEPT !.at = @ + 1]
                         /\ UNCHANGED <<dvars, step>>
                    ELSE IF message.AccountKeys[inst.ProgramIDIndex + 1] # jupiterV6ProgramID
                    THEN /\ analysis' = [analysis EXCEPT !.at = @ + 1]
                         /\ UNCHANGED <<dvars, step>>
                    ELSE /\ data' = GoSlice(inst.Data)
                         /\ pc' = "call"
                         /\ fn' = ""
                         /\ instructionType' = ""
                         /\ offset' = 0
                         /\ id' = 0
                         /\ routePlanCount' = <<>>
                         /\ routePlan' = <<>>
                         /\ result' = Nil
                         /\ err' = "nil"
                         /\ UNCHANGED <<analysis, step>>
    /\ UNCHANGED <<tx, innerAt, logAt, events, parsed, summary, stdout>>

\* the rest of the iteration, when parseJupiterV6Instruction is back: an
\* error is printed and the loop continues, a record is appended; a fault
\* in the decoder is not recovered and ends the analysis
analyzeJupiterV6TransactionDecoded ==
    /\ analysis # Nil
    /\ ~analysis.crashed
    /\ pc = "done"
    /\ IF err = "panic"
       THEN /\ analysis' = [analysis EXCEPT !.crashed = TRUE]
            /\ UNCHANGED pc
       ELSE /\ analysis' =
                 [analysis EXCEPT !.at = @ + 1,
                                  !.Instructions = IF err # "nil" THEN @
                                                   ELSE Append(@, result)]
            /\ pc' = "idle"
    /\ UNCHANGED <<data, fn, instructionType, offset, id, routePlanCount, routePlan,
                   result, err, tx, step, innerAt, logAt, events, parsed, summary, stdout>>

\* Messages of up to MaxInstructions instructions: of the target program
\* with a buffer of each family of kinds, with buffers that fail (too
\* short, unknown discriminator, cut inside the plan, cut inside the
\* trailing fields); of another program; with a program index beyond
\* the account keys.  The transaction result has no meta, or one event
\* in an inner instruction and one in a log line.
InitAnalysis ==
    LET keys == <<"11111111111111111111111111111111", jupiterV6ProgramID>>
        Inst(index, bytes) == [ProgramIDIndex |-> index, Data |-> bytes]
        exactOut == Wire("exactOutRoute", 0, <<1>>, StepBytes(17, 0, 1),
                         <<232, 3>>, <<64, 66, 15>>, 50, 85)
        InstructionSample ==
            { Inst(1, FixtureRoute), Inst(1, FixtureSharedAccountsRoute), Inst(1, exactOut),
              Inst(1, <<1, 2, 3>>),
              Inst(1, Zeros(8) \o SubSeq(FixtureRoute, 9, Len(FixtureRoute))),
              Inst(1, SubSeq(FixtureRoute, 1, 14)),
              Inst(1, SubSeq(FixtureRoute, 1, 20)),
              Inst(0, FixtureRoute), Inst(2, FixtureRoute) }
        one == [list |-> <<[Instructions |-> <<Inst(1, EventSample.A)>>]>>]
    IN  /\ \E n \in 0..MaxInstructions : \E insts \in [1..n -> InstructionSample] :
             analysis = [parsedTx |-> [Message |-> [AccountKeys |-> keys,
                                                    Instructions |-> insts]],
                         at |-> 1, Instructions |-> <<>>, crashed |-> FALSE]
        /\ tx \in { [Meta |-> Nil, Transaction |-> [err |-> "nil", AccountKeys |-> keys]],
                     [Meta |-> [InnerInstructions |-> one,
                                LogMessages |->
                                    [list |-> <<ProgramDataMarker \o EventSample.C>>]],
                      Transaction |-> [err |-> "nil", AccountKeys |-> keys]] }
        /\ step = "idle"
        /\ innerAt = <<1, 1>>
        /\ logAt = 1
        /\ events = <<>>
        /\ parsed = Nil
        /\ summary = Nil
        /\ stdout = Nil
        /\ data = GoSlice(<<>>)
        /\ pc = "idle"
        /\ fn = ""
        /\ instructionType = ""
        /\ offset = 0
        /\ id = 0
        /\ routePlanCount = <<>>
        /\ routePlan = <<>>
        /\ result = Nil
        /\ err = "nil"

SpecAnalysis ==
    InitAnalysis /\ [][analyzeJupiterV6TransactionLoop \/ Next
                         \/ analyzeJupiterV6TransactionDecoded \/ NextEvents]_vars

\* C23: in analyzeJupiterV6Transaction a decode of one instruction that
\* fails ends the work on that instruction only: whenever the decoder is
\* back the analysis goes on with the next instruction, with the decoded
\* record appended to Instructions when the decode succeeded and with
\* Instructions as it was when it failed; the analysis is never ended.
C23_DecodeFailureSkipsInstruction ==
    [][(analysis # Nil /\ pc = "done") =>
         /\ ~analysis'.crashed
         /\ analysis'.at = analysis.at + 1
         /\ analysis'.Instructions = IF Decoded THEN Append(analysis.Instructions, result)
                                     ELSE analysis.Instructions]_vars

-----------------------------------------------------------------------------
(* Further claims on the decoder *)

\* Calls on the plans of up to MaxSteps steps, on buffers whose count
\* field is huge, and on these and the fixtures cut at every length.  The
\* decoder is sequential code: a phase that can run does run.  For the
\* phase after the loop the condition under which it can run is written
\* out: it is pc = "loop" with the loop done, and the phase then always
\* returns, with a record or a fault.
SpecTermination ==
    /\ InitOn(PlanInputs \cup BigCountInputs,
              {FixtureSharedAccountsRoute, FixtureRoute} \cup BigCountInputs)
    /\ [][Next]_vars
    /\ WF_vars(parseJupiterV6Instruction)
    /\ WF_vars(parseRouteInstructionCount \/ parseSharedAccountsRouteCount
                  \/ parseExactOutRouteCount)
    /\ WF_vars(parseRouteInstructionLoop \/ parseSharedAccountsRouteLoop
                  \/ parseExactOutRouteLoop)
    /\ \/ []<>~(pc = "loop" /\ LoopDone)
       \/ []<><<parseRouteInstructionTail \/ parseSharedAccountsRouteTail
                  \/ parseExactOutRouteTail>>_vars

\* C27: the route-plan loop ends, whatever count the buffer declares: every
\* call returns.  Each decoded step moves the offset by 4 + width(tag), at
\* least 4, so a call that returns a record with n steps was given at least
\* header + 4n + 19 bytes (header 12, or 13 with the id byte), and no
\* buffer decodes whose count is larger than (len - header) div 4.
C27_RoutePlanLoopBoundedByBuffer ==
    /\ <>Returned
    /\ [][StepAppended =>
            /\ offset' = offset + 4 + WireWidth(Buf[offset + 1])
            /\ offset' >= offset + 4]_vars
    /\ [](Decoded =>
            LET header == HeaderLen(result.InstructionType)
            IN  /\ Len(Buf) >= header + 4 * Len(result.RoutePlan) + 19
                /\ Len(result.RoutePlan) = NToInt(routePlanCount)
                /\ NToInt(CountField(Buf)) <= (Len(Buf) - header) \div 4)

\* a shared-accounts buffer of 13 + 2 * 5 + 19 bytes has decoded to two steps
C27_Witness ==
    /\ Decoded
    /\ result.InstructionType = "sharedAccountsRoute"
    /\ Len(result.RoutePlan) = 2
    /\ Len(Buf) = 42
    /\ offset = 23

\* parseJupiterV6Instruction(append(data, t...)) after a call that has
\* decoded data: the record of the first call is kept in parsed
parseJupiterV6InstructionExtended ==
    /\ pc = "done"
    /\ err = "nil"
    /\ parsed = Nil
    /\ \E t \in {<<0>>, <<255, 1, 2>>} : data' = GoSlice(Buf \o t)
    /\ parsed' = result
    /\ pc' = "call"
    /\ fn' = ""
    /\ instructionType' = ""
    /\ offset' = 0
    /\ id' = 0
    /\ routePlanCount' = <<>>
    /\ routePlan' = <<>>
    /\ result' = Nil
    /\ err' = "nil"
    /\ UNCHANGED <<tx, step, innerAt, logAt, events, summary, analysis, stdout>>

\* calls on the fixtures, on the plans of up to MaxSteps steps and on the
\* varied amounts, each followed by a call on the buffer extended
SpecExtended ==
    /\ InitOn({FixtureSharedAccountsRoute, FixtureRoute} \cup PlanInputs
                \cup AmountInputs, {})
    /\ [][Next \/ parseJupiterV6InstructionExtended]_vars

\* C28: the bytes after the platform-fee byte are ignored: when a buffer
\* decodes, the buffer with more bytes after it decodes too, to the same
\* record: kind, id, route plan, amounts, slippage and fee are equal, and
\* the derived amount is the conversion of the same product.
C28_TrailingBytesIgnored ==
    (pc = "done" /\ parsed # Nil) =>
      /\ err = "nil"
      /\ [result EXCEPT !.MinAmountOut = <<>>] = [parsed EXCEPT !.MinAmountOut = <<>>]
      /\ LET derived == IF result.InstructionType \in ExactOutKinds
                        THEN MaxAmountInOf(result.QuotedInAmount, result.SlippageBps)
                        ELSE MinAmountOutOf(result.QuotedOutAmount, result.SlippageBps)
         IN  /\ result.MinAmountOut \in derived
             /\ parsed.MinAmountOut \in derived
             /\ Cardinality(derived) = 1 => result = parsed

\* the route fixture with three more bytes has decoded to the record of
\* the fixture
C28_Witness ==
    /\ pc = "done"
    /\ parsed # Nil
    /\ Buf = FixtureRoute \o <<255, 1, 2>>
    /\ result = parsed
    /\ result.PlatformFeeBps = 85

\* C29 as stated: for every u64 amount and every u16 slippageBps the
\* derived amount is on the safe side of the quote: MinAmountOut <=
\* QuotedOutAmount for the four route kinds, and the amount in the
\* MinAmountOut slot >= QuotedInAmount for the two exact-out kinds.
C29_DerivedAmountBoundsQuote ==
    Decoded =>
      IF result.InstructionType \in RouteKinds
      THEN NCmp(result.MinAmountOut, result.QuotedOutAmount) <= 0
      ELSE NCmp(result.MinAmountOut, result.QuotedInAmount) >= 0

\* C29 amended: the bound holds up to the rounding of the amount to
\* float64, and only where the product is a uint64.  For the route kinds
\* with slippageBps <= 10000 and quotedOutAmount <= 2^64 - 2^11,
\* MinAmountOut <= quotedOutAmount + floor(quotedOutAmount / 2^53); for the
\* exact-out kinds with floor(quotedInAmount * (10000 + slippageBps) /
\* 10000) <= 2^64 - 2^16, the amount in the MinAmountOut slot is >=
\* quotedInAmount - floor(quotedInAmount / 2^53).  Amounts below 2^53 are
\* bounded exactly.
C29_DerivedAmountBoundsQuoteUpToRounding ==
    Decoded =>
      IF result.InstructionType \in RouteKinds
      THEN (/\ result.SlippageBps <= 10000
            /\ NCmp(result.QuotedOutAmount, RouteAmountLimit) <= 0) =>
              NCmp(result.MinAmountOut,
                   NAdd(result.QuotedOutAmount, NShr(result.QuotedOutAmount, 53))) <= 0
      ELSE NCmp(FloorMaxAmountIn(result.QuotedInAmount, result.SlippageBps),
                ExactOutAmountLimit) <= 0 =>
              NCmp(NAdd(result.MinAmountOut, NShr(result.QuotedInAmount, 53)),
                   result.QuotedInAmount) >= 0

\* an exact-out instruction with quoted input 2^53 + 1 and no slippage:
\* float64 holds 2^53, and the derived amount is below the quote
C29_Witness ==
    /\ Decoded
    /\ result.InstructionType = "exactOutRoute"
    /\ result.QuotedInAmount = <<1, 0, 0, 0, 0, 0, 32>>
    /\ result.SlippageBps = 0
    /\ result.MinAmountOut = <<0, 0, 0, 0, 0, 0, 32>>

\* C30: the name table and the decoder agree.  No two names of
\* SwapTypeToIndex have the same tag; for every entry (name, tag)
\* decodeSwapType on that tag, with its parameter bytes in the buffer,
\* returns the variant whose Type is name; every tag that is no value of
\* the table decodes to "Unknown_<tag>".
C30_NameTableAgreesWithDecoder ==
    LET TableName(tag) ==
            IF \E p \in SwapTypeToIndex : p[2] = tag
            THEN (CHOOSE p \in SwapTypeToIndex : p[2] = tag)[1]
            ELSE "Unknown_" \o ToString(tag)
    IN  /\ \A p, q \in SwapTypeToIndex : p[2] = q[2] => p = q
        /\ \A tag \in 0..255 :
              LET dec == decodeSwapType(tag, GoSlice(Zeros(16)), 0)
              IN  dec.err = "nil" /\ dec.swap.Type = TableName(tag)
        /\ (pc = "stepped" /\ err = "nil") =>
              result.Swap.Type = TableName(data.arr[1])

\* a step of tag 61, which the table gives to SolFi, has decoded to a
\* SolFi variant
C30_Witness ==
    /\ pc = "stepped"
    /\ err = "nil"
    /\ data.arr[1] = 61
    /\ <<"SolFi", 61>> \in SwapTypeToIndex
    /\ result.Swap.Type = "SolFi"

=============================================================================
